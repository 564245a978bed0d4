--------------------------- MODULE GameRoomProofs ---------------------------
(***************************************************************************)
(* Proofs about GameRoom, for any players, connections and bounds.         *)
(***************************************************************************)
EXTENDS GameRoom, FiniteSetTheorems, TLAPS

----------------------------------------------------------------------------
(* Types.                                                                  *)

\* Within a round the loop's counter has passed the test of the for statement.
NeedsRound == InRound \cup {"after", "afterOne", "soleAfter", "result"}
RoundInv   == \A o \in Rooms : loop[o] \in NeedsRound => round[o] <= Total
TypeInv    == TypeOK /\ RoundInv

LEMMA ActiveCountNat ==
  ASSUME TypeOK, NEW o \in Rooms
  PROVE  ActiveCount(o) \in Nat
<1>1. IsFiniteSet(active[o])
  BY ConstantsAssumption, FS_Subset DEF TypeOK, RoomType
<1> QED BY <1>1, FS_CardinalityType DEF ActiveCount

LEMMA HubStable == HubType /\ UNCHANGED hubVars => HubType'
BY DEF HubType, hubVars
LEMMA RoomStable == RoomType /\ UNCHANGED roomVars => RoomType'
BY DEF RoomType, roomVars
LEMMA LoopStable == LoopType /\ RoundInv /\ UNCHANGED loopVars => LoopType' /\ RoundInv'
BY DEF LoopType, loopVars, RoundInv
LEMMA StreamStable == StreamType /\ UNCHANGED streamVars => StreamType'
BY DEF StreamType, streamVars
LEMMA GiveUpStable == GiveUpType /\ UNCHANGED giveUpVars => GiveUpType'
BY DEF GiveUpType, giveUpVars
LEMMA RedisStable == RedisType /\ UNCHANGED redisVars => RedisType'
BY DEF RedisType, redisVars
LEMMA OutStable == OutType /\ UNCHANGED outVars => OutType'
BY DEF OutType, outVars
LEMMA ClientStable == ClientType /\ UNCHANGED clientVars => ClientType'
BY DEF ClientType, clientVars
LEMMA BudgetStable == BudgetType /\ UNCHANGED budgetVars => BudgetType'
BY DEF BudgetType, budgetVars

LEMMA TypeStep == TypeInv /\ [Next]_vars => TypeInv'
<1> SUFFICES ASSUME TypeInv, [Next]_vars
             PROVE  TypeInv'
  OBVIOUS
<1> USE ConstantsAssumption DEF Rooms, NoRoom, Rounds
<1>1. ASSUME NEW o \in Rooms, LobbyOver(o)
      PROVE  TypeInv'
  <2>1. LoopType' /\ RoundInv'
    BY <1>1 DEF LobbyOver, LoopOnly, Goto, TypeInv, TypeOK, LoopType,
       RoundInv, NeedsRound, LoopPlaces, Running, InMatch, Finishing, InRound,
       loopVars
  <2> QED
    BY <2>1, <1>1, HubStable, RoomStable, StreamStable, GiveUpStable,
       RedisStable, OutStable, ClientStable, BudgetStable
    DEF LobbyOver, LoopOnly, TypeInv, TypeOK
<1>2. ASSUME NEW o \in Rooms, CheckActive(o)
      PROVE  TypeInv'
  <2>1. LoopType' /\ RoundInv'
    BY <1>2 DEF CheckActive, LoopOnly, Goto, TypeInv, TypeOK, LoopType,
       HubType, RoundInv, NeedsRound, LoopPlaces, Running, InMatch, Finishing,
       InRound, loopVars
  <2> QED
    BY <2>1, <1>2, HubStable, RoomStable, StreamStable, GiveUpStable,
       RedisStable, OutStable, ClientStable, BudgetStable
    DEF CheckActive, LoopOnly, TypeInv, TypeOK
<1>3. ASSUME NEW o \in Rooms, NameSole(o)
      PROVE  TypeInv'
  <2>1. PICK p \in LastActive(o) : winner' = [winner EXCEPT ![o] = p]
    BY <1>3 DEF NameSole
  <2>2. p \in Players \cup {NoPlayer}
    BY <2>1 DEF LastActive, TypeInv, TypeOK, RoomType
  <2>3. LoopType' /\ RoundInv'
    BY <2>1, <2>2, <1>3 DEF NameSole, LoopOnly, Goto, TypeInv, TypeOK,
       LoopType, RoundInv, NeedsRound, LoopPlaces, Running, InMatch, Finishing, InRound
  <2> QED
    BY <2>3, <1>3, HubStable, RoomStable, StreamStable, GiveUpStable,
       RedisStable, OutStable, ClientStable, BudgetStable
    DEF NameSole, LoopOnly, TypeInv, TypeOK
<1>4. ASSUME NEW o \in Rooms, PopQuestion(o)
      PROVE  TypeInv'
  <2>1. LoopType' /\ RoundInv'
    BY <1>4 DEF PopQuestion, Goto, TypeInv, TypeOK, LoopType, RoundInv,
       NeedsRound, LoopPlaces, Running, InMatch, Finishing, InRound, loopVars
  <2>2. RedisType'
    BY <1>4 DEF PopQuestion, TypeInv, TypeOK, RedisType
  <2> QED
    BY <2>1, <2>2, <1>4, HubStable, RoomStable, StreamStable, GiveUpStable,
       OutStable, ClientStable, BudgetStable
    DEF PopQuestion, TypeInv, TypeOK
<1>5. ASSUME NEW o \in Rooms, AskQuestion(o)
      PROVE  TypeInv'
  <2>a. loop[o] \in NeedsRound /\ RoundInv
    BY <1>5 DEF AskQuestion, TypeInv, NeedsRound, InRound
  <2>b. round[o] \in 1..(Total + 1) /\ Total \in Nat
    BY ConstantsAssumption DEF TypeInv, TypeOK, LoopType
  <2>0. round[o] \in Rounds
    BY <2>a, <2>b DEF RoundInv, Rounds
  <2>1. LoopType' /\ RoundInv'
    BY <1>5 DEF AskQuestion, Goto, Audience, TypeInv, TypeOK, LoopType,
       RoundInv, NeedsRound, LoopPlaces, Running, InMatch, Finishing, InRound,
       loopVars
  <2>2. ClientType'
    BY <2>0, <1>5 DEF AskQuestion, TypeInv, TypeOK, ClientType
  <2> QED
    BY <2>1, <2>2, <1>5, HubStable, RoomStable, StreamStable, GiveUpStable,
       RedisStable, OutStable, BudgetStable
    DEF AskQuestion, TypeInv, TypeOK
<1>6. ASSUME NEW o \in Rooms, TickCount(o)
      PROVE  TypeInv'
  <2>0. ActiveCount(o) \in Nat
    BY ActiveCountNat DEF TypeInv
  <2>1. LoopType' /\ RoundInv'
    BY <2>0, <1>6 DEF TickCount, LoopOnly, Goto, TypeInv, TypeOK, LoopType,
       RoundInv, NeedsRound, LoopPlaces, Running, InMatch, Finishing, InRound,
       loopVars
  <2> QED
    BY <2>1, <1>6, HubStable, RoomStable, StreamStable, GiveUpStable,
       RedisStable, OutStable, ClientStable, BudgetStable
    DEF TickCount, LoopOnly, TypeInv, TypeOK
<1>7. ASSUME NEW o \in Rooms, TickCompare(o)
      PROVE  TypeInv'
  <2>1. LoopType' /\ RoundInv'
    BY <1>7 DEF TickCompare, LoopOnly, Goto, TypeInv, TypeOK, LoopType,
       RoundInv, NeedsRound, LoopPlaces, Running, InMatch, Finishing, InRound,
       loopVars
  <2> QED
    BY <2>1, <1>7, HubStable, RoomStable, StreamStable, GiveUpStable,
       RedisStable, OutStable, ClientStable, BudgetStable
    DEF TickCompare, LoopOnly, TypeInv, TypeOK
<1>8. ASSUME NEW o \in Rooms, TimerExpires(o)
      PROVE  TypeInv'
  <2>1. LoopType' /\ RoundInv'
    BY <1>8 DEF TimerExpires, LoopOnly, Goto, TypeInv, TypeOK, LoopType,
       RoundInv, NeedsRound, LoopPlaces, Running, InMatch, Finishing, InRound,
       loopVars
  <2> QED
    BY <2>1, <1>8, HubStable, RoomStable, StreamStable, GiveUpStable,
       RedisStable, OutStable, ClientStable, BudgetStable
    DEF TimerExpires, LoopOnly, TypeInv, TypeOK
<1>9. ASSUME NEW o \in Rooms, CloseRound(o)
      PROVE  TypeInv'
  <2>0. round[o] \in Rounds
    BY <1>9 DEF CloseRound, TypeInv, TypeOK, LoopType, RoundInv, NeedsRound,
       InRound
  <2>1. LoopType' /\ RoundInv'
    BY <1>9 DEF CloseRound, Goto, TypeInv, TypeOK, LoopType, RoundInv,
       NeedsRound, LoopPlaces, Running, InMatch, Finishing, InRound, loopVars
  <2>2. RedisType'
    BY <2>0, <1>9 DEF CloseRound, TypeInv, TypeOK, RedisType
  <2> QED
    BY <2>1, <2>2, <1>9, HubStable, RoomStable, StreamStable, GiveUpStable,
       OutStable, ClientStable, BudgetStable
    DEF CloseRound, TypeInv, TypeOK
<1>10. ASSUME NEW o \in Rooms, PublishCompleted(o)
      PROVE  TypeInv'
  <2>0. round[o] \in Rounds
    BY <1>10 DEF PublishCompleted, TypeInv, TypeOK, LoopType, RoundInv, NeedsRound,
       InRound
  <2>1. LoopType' /\ RoundInv'
    BY <1>10 DEF PublishCompleted, Goto, TypeInv, TypeOK, LoopType, RoundInv,
       NeedsRound, LoopPlaces, Running, InMatch, Finishing, InRound, loopVars
  <2>2. OutType'
    <3>1. completed \in [Rounds -> Nat] /\ completed[round[o]] + 1 \in Nat
      BY <2>0 DEF TypeInv, TypeOK, OutType
    <3>2. completed' \in [Rounds -> Nat]
      BY <1>10, <3>1 DEF PublishCompleted
    <3> QED
      BY <1>10, <3>2 DEF PublishCompleted, TypeInv, TypeOK, OutType
  <2> QED
    BY <2>1, <2>2, <1>10, HubStable, RoomStable, StreamStable, GiveUpStable,
       RedisStable, ClientStable, BudgetStable
    DEF PublishCompleted, TypeInv, TypeOK
<1>11. ASSUME NEW o \in Rooms, CheckRemaining(o)
      PROVE  TypeInv'
  <2>1. LoopType' /\ RoundInv'
    BY <1>11 DEF CheckRemaining, Goto, TypeInv, TypeOK, LoopType, RoundInv,
       NeedsRound, LoopPlaces, Running, InMatch, Finishing, InRound, loopVars
  <2>2. OutType'
    BY <1>11 DEF CheckRemaining, TypeInv, TypeOK, OutType
  <2> QED
    BY <2>1, <2>2, <1>11, HubStable, RoomStable, StreamStable, GiveUpStable,
       RedisStable, ClientStable, BudgetStable
    DEF CheckRemaining, TypeInv, TypeOK
<1>12. ASSUME NEW o \in Rooms, AfterRound(o)
      PROVE  TypeInv'
  <2>1. LoopType' /\ RoundInv'
    BY <1>12 DEF AfterRound, LoopOnly, Goto, TypeInv, TypeOK, LoopType,
       RoundInv, NeedsRound, LoopPlaces, Running, InMatch, Finishing, InRound,
       loopVars
  <2> QED
    BY <2>1, <1>12, HubStable, RoomStable, StreamStable, GiveUpStable,
       RedisStable, OutStable, ClientStable, BudgetStable
    DEF AfterRound, LoopOnly, TypeInv, TypeOK
<1>13. ASSUME NEW o \in Rooms, AfterRoundOne(o)
      PROVE  TypeInv'
  <2>1. LoopType' /\ RoundInv'
    BY <1>13 DEF AfterRoundOne, LoopOnly, Goto, TypeInv, TypeOK, LoopType,
       RoundInv, NeedsRound, LoopPlaces, Running, InMatch, Finishing, InRound,
       loopVars
  <2> QED
    BY <2>1, <1>13, HubStable, RoomStable, StreamStable, GiveUpStable,
       RedisStable, OutStable, ClientStable, BudgetStable
    DEF AfterRoundOne, LoopOnly, TypeInv, TypeOK
<1>14. ASSUME NEW o \in Rooms, NameSoleAfter(o)
      PROVE  TypeInv'
  <2>1. PICK p \in LastActive(o) : winner' = [winner EXCEPT ![o] = p]
    BY <1>14 DEF NameSoleAfter
  <2>2. p \in Players \cup {NoPlayer}
    BY <2>1 DEF LastActive, TypeInv, TypeOK, RoomType
  <2>3. LoopType' /\ RoundInv'
    BY <2>1, <2>2, <1>14 DEF NameSoleAfter, LoopOnly, Goto, TypeInv, TypeOK,
       LoopType, RoundInv, NeedsRound, LoopPlaces, Running, InMatch, Finishing, InRound
  <2> QED
    BY <2>3, <1>14, HubStable, RoomStable, StreamStable, GiveUpStable,
       RedisStable, OutStable, ClientStable, BudgetStable
    DEF NameSoleAfter, LoopOnly, TypeInv, TypeOK
<1>15. ASSUME NEW o \in Rooms, RoundResult(o)
      PROVE  TypeInv'
  <2>0. round[o] \in 1..Total
    BY <1>15 DEF RoundResult, TypeInv, TypeOK, LoopType, RoundInv, NeedsRound
  <2>1. round' \in [Rooms -> 1..(Total + 1)]
    <3>1. \/ round' = round
          \/ round' = [round EXCEPT ![o] = round[o] + 1]
      BY <1>15 DEF RoundResult
    <3>2. round[o] + 1 \in 1..(Total + 1)
      BY <2>0
    <3>3. round \in [Rooms -> 1..(Total + 1)]
      BY DEF TypeInv, TypeOK, LoopType
    <3> HIDE DEF Rooms
    <3> QED BY <3>1, <3>2, <3>3
  <2>2. /\ loop' = [loop EXCEPT ![o] = loop'[o]]
        /\ loop'[o] \in {"final", "check"}
        /\ \A q \in Rooms \ {o} : round'[q] = round[q]
    BY <1>15 DEF RoundResult, Goto, TypeInv, TypeOK, LoopType
  <2>3. LoopType' /\ RoundInv'
    BY <2>1, <2>2, <1>15 DEF RoundResult, TypeInv, TypeOK, LoopType,
       RoundInv, NeedsRound, LoopPlaces, Running, InMatch, Finishing, InRound
  <2> QED
    BY <2>3, <1>15, HubStable, RoomStable, StreamStable, GiveUpStable,
       RedisStable, OutStable, ClientStable, BudgetStable
    DEF RoundResult, LoopOnly, TypeInv, TypeOK
<1>16. ASSUME NEW o \in Rooms, MatchEnd(o)
      PROVE  TypeInv'
  <2>0. ASSUME NEW board \in SUBSET entrants
        PROVE  board \subseteq Players
    BY <2>0 DEF TypeInv, TypeOK, RedisType
  <2>1. final' \in [Rooms -> SUBSET Players]
    <3>1. \/ final' = final
          \/ \E board \in SUBSET entrants :
               final' = [final EXCEPT ![o] = IF board = {} THEN Players
                                                           ELSE board]
      BY <1>16 DEF MatchEnd
    <3>2. final \in [Rooms -> SUBSET Players]
      BY DEF TypeInv, TypeOK, LoopType
    <3>3. CASE final' = final
      BY <3>2, <3>3
    <3>4. ASSUME NEW board \in SUBSET entrants,
                 final' = [final EXCEPT ![o] = IF board = {} THEN Players
                                                             ELSE board]
          PROVE  final' \in [Rooms -> SUBSET Players]
      BY <3>2, <3>4, <2>0
    <3> QED BY <3>1, <3>3, <3>4
  <2>2. winner' \in [Rooms -> Players \cup {NoPlayer}]
    <3>1. winner' = winner
          \/ \E p \in final'[o] : winner' = [winner EXCEPT ![o] = p]
      BY <1>16 DEF MatchEnd
    <3>2. winner \in [Rooms -> Players \cup {NoPlayer}]
      BY DEF TypeInv, TypeOK, LoopType
    <3>3. CASE winner' = winner
      BY <3>2, <3>3
    <3>4. ASSUME NEW p \in final'[o], winner' = [winner EXCEPT ![o] = p]
          PROVE  winner' \in [Rooms -> Players \cup {NoPlayer}]
      <4>1. p \in Players
        BY <2>1, <3>4
      <4> QED BY <4>1, <3>2, <3>4
    <3> QED BY <3>1, <3>3, <3>4
  <2>3. LoopType' /\ RoundInv'
    BY <2>1, <2>2, <1>16 DEF MatchEnd, Goto, TypeInv, TypeOK, LoopType,
       RoundInv, NeedsRound, LoopPlaces, Running, InMatch, Finishing, InRound
  <2>4. ClientType'
    BY <1>16 DEF MatchEnd, Audience, TypeInv, TypeOK, ClientType, RoomType
  <2> QED
    BY <2>3, <2>4, <1>16, HubStable, RoomStable, StreamStable, GiveUpStable,
       RedisStable, OutStable, BudgetStable
    DEF MatchEnd, TypeInv, TypeOK
<1>17. ASSUME NEW o \in Rooms, UpdateRatings(o)
      PROVE  TypeInv'
  <2>1. LoopType' /\ RoundInv'
    BY <1>17 DEF UpdateRatings, Goto, TypeInv, TypeOK, LoopType, RoundInv,
       NeedsRound, LoopPlaces, Running, InMatch, Finishing, InRound, loopVars
  <2>2. OutType'
    BY <1>17 DEF UpdateRatings, TypeInv, TypeOK, OutType
  <2> QED
    BY <2>1, <2>2, <1>17, HubStable, RoomStable, StreamStable, GiveUpStable,
       RedisStable, ClientStable, BudgetStable
    DEF UpdateRatings, TypeInv, TypeOK
<1>18. ASSUME NEW o \in Rooms, SaveHistory(o)
      PROVE  TypeInv'
  <2>1. LoopType' /\ RoundInv'
    BY <1>18 DEF SaveHistory, Goto, TypeInv, TypeOK, LoopType, RoundInv,
       NeedsRound, LoopPlaces, Running, InMatch, Finishing, InRound, loopVars
  <2>2. OutType'
    BY <1>18 DEF SaveHistory, TypeInv, TypeOK, OutType
  <2> QED
    BY <2>1, <2>2, <1>18, HubStable, RoomStable, StreamStable, GiveUpStable,
       RedisStable, ClientStable, BudgetStable
    DEF SaveHistory, TypeInv, TypeOK
<1>19. ASSUME NEW o \in Rooms, CloseAll(o)
      PROVE  TypeInv'
  <2>1. RoomType'
    BY <1>19 DEF CloseAll, TypeInv, TypeOK, RoomType
  <2>2. LoopType' /\ RoundInv'
    BY <1>19 DEF CloseAll, Goto, TypeInv, TypeOK, LoopType, RoomType,
       RoundInv, NeedsRound, LoopPlaces, Running, InMatch, Finishing, InRound,
       loopVars
  <2>3. StreamType'
    BY <1>19 DEF CloseAll, TypeInv, TypeOK, StreamType, RoomType, StreamPlaces
  <2>4. ClientType'
    BY <1>19 DEF CloseAll, TypeInv, TypeOK, ClientType, RoomType
  <2> QED
    BY <2>1, <2>2, <2>3, <2>4, <1>19, HubStable, GiveUpStable, RedisStable,
       OutStable, BudgetStable
    DEF CloseAll, TypeInv, TypeOK
<1>20. ASSUME NEW o \in Rooms, HubDelete(o)
      PROVE  TypeInv'
  <2>1. HubType'
    BY <1>20 DEF HubDelete, TypeInv, TypeOK, HubType
  <2>2. LoopType' /\ RoundInv'
    BY <1>20 DEF HubDelete, Goto, TypeInv, TypeOK, LoopType, RoundInv,
       NeedsRound, LoopPlaces, Running, InMatch, Finishing, InRound, loopVars
  <2> QED
    BY <2>1, <2>2, <1>20, RoomStable, StreamStable, GiveUpStable, RedisStable,
       OutStable, ClientStable, BudgetStable
    DEF HubDelete, TypeInv, TypeOK
<1>21. ASSUME NEW c \in Conns, StreamLookup(c)
      PROVE  TypeInv'
  <2>1. StreamType'
    BY <1>21 DEF StreamLookup, TypeInv, TypeOK, StreamType, HubType,
       StreamPlaces
  <2> QED
    BY <2>1, <1>21, HubStable, RoomStable, LoopStable, GiveUpStable,
       RedisStable, OutStable, ClientStable, BudgetStable
    DEF StreamLookup, TypeInv, TypeOK
<1>22. ASSUME NEW c \in Conns, StreamCount(c)
      PROVE  TypeInv'
  <2>1. StreamType'
    BY <1>22 DEF StreamCount, TypeInv, TypeOK, StreamType, RedisType,
       StreamPlaces
  <2> QED
    BY <2>1, <1>22, HubStable, RoomStable, LoopStable, GiveUpStable,
       RedisStable, OutStable, ClientStable, BudgetStable
    DEF StreamCount, TypeInv, TypeOK
<1>23. ASSUME NEW c \in Conns, StreamCreate(c)
      PROVE  TypeInv'
  <2>1. PICK o \in Rooms : /\ GetOrCreate(o, want[c])
                           /\ ref' = [ref EXCEPT ![c] = o]
    BY <1>23 DEF StreamCreate
  <2>2. want[c] \in 0..Total
    BY DEF TypeInv, TypeOK, StreamType
  <2>3. HubType'
    BY <2>1, <2>2 DEF GetOrCreate, hubVars, TypeInv, TypeOK, HubType
  <2>4. StreamType'
    BY <2>1, <1>23 DEF StreamCreate, TypeInv, TypeOK, StreamType, StreamPlaces
  <2> QED
    BY <2>3, <2>4, <1>23, RoomStable, LoopStable, GiveUpStable, RedisStable,
       OutStable, ClientStable, BudgetStable
    DEF StreamCreate, TypeInv, TypeOK
<1>24. ASSUME NEW c \in Conns, StreamSubscribe(c)
      PROVE  TypeInv'
  <2>1. RoomType'
    BY <1>24 DEF StreamSubscribe, TypeInv, TypeOK, RoomType
  <2>2. StreamType'
    BY <1>24 DEF StreamSubscribe, TypeInv, TypeOK, StreamType, StreamPlaces
  <2> QED
    BY <2>1, <2>2, <1>24, HubStable, LoopStable, GiveUpStable, RedisStable,
       OutStable, ClientStable, BudgetStable
    DEF StreamSubscribe, TypeInv, TypeOK
<1>25. ASSUME NEW c \in Conns, StreamStart(c)
      PROVE  TypeInv'
  <2>1. LoopType' /\ RoundInv'
    BY <1>25 DEF StreamStart, TypeInv, TypeOK, LoopType, StreamType, RoundInv,
       NeedsRound, LoopPlaces, Running, InMatch, Finishing, InRound, loopVars
  <2>2. StreamType'
    BY <1>25 DEF StreamStart, TypeInv, TypeOK, StreamType, StreamPlaces
  <2> QED
    BY <2>1, <2>2, <1>25, HubStable, RoomStable, GiveUpStable, RedisStable,
       OutStable, ClientStable, BudgetStable
    DEF StreamStart, TypeInv, TypeOK
<1>26. ASSUME NEW c \in Conns, Disconnect(c)
      PROVE  TypeInv'
  <2>1. RoomType'
    BY <1>26 DEF Disconnect, TypeInv, TypeOK, RoomType
  <2>2. StreamType'
    BY <1>26 DEF Disconnect, TypeInv, TypeOK, StreamType, StreamPlaces
  <2> QED
    BY <2>1, <2>2, <1>26, HubStable, LoopStable, GiveUpStable, RedisStable,
       OutStable, ClientStable, BudgetStable
    DEF Disconnect, TypeInv, TypeOK
<1>27. ASSUME NEW p \in Players, NEW r \in Rounds, SubmitAnswer(p, r)
      PROVE  TypeInv'
  <2>1. RedisType'
    BY <1>27 DEF SubmitAnswer, TypeInv, TypeOK, RedisType
  <2>2. ClientType'
    BY <1>27 DEF SubmitAnswer, TypeInv, TypeOK, ClientType, RedisType
  <2> QED
    BY <2>1, <2>2, <1>27, HubStable, RoomStable, LoopStable, StreamStable,
       GiveUpStable, OutStable, BudgetStable
    DEF SubmitAnswer, TypeInv, TypeOK
<1>28. ASSUME NEW p \in Players, Forfeit(p)
      PROVE  TypeInv'
  <2>1. HubType'
    BY <1>28 DEF Forfeit, GetOrCreate, hubVars, TypeInv, TypeOK, HubType
  <2>2. GiveUpType'
    BY <1>28 DEF Forfeit, GetOrCreate, hubVars, TypeInv, TypeOK, GiveUpType, HubType
  <2> QED
    BY <2>1, <2>2, <1>28, RoomStable, LoopStable, StreamStable, RedisStable,
       OutStable, ClientStable, BudgetStable
    DEF Forfeit, TypeInv, TypeOK
<1>29. ASSUME NEW p \in Players, MarkForfeited(p)
      PROVE  TypeInv'
  <2>1. RoomType'
    BY <1>29 DEF MarkForfeited, TypeInv, TypeOK, RoomType
  <2>2. GiveUpType'
    BY <1>29 DEF MarkForfeited, TypeInv, TypeOK, GiveUpType
  <2> QED
    BY <2>1, <2>2, <1>29, HubStable, LoopStable, StreamStable, RedisStable,
       OutStable, ClientStable, BudgetStable
    DEF MarkForfeited, TypeInv, TypeOK
<1>30. ASSUME SelectQuestions
      PROVE  TypeInv'
  <2>1. RedisType'
    BY <1>30 DEF SelectQuestions, TypeInv, TypeOK, RedisType
  <2>2. BudgetType'
    BY <1>30 DEF SelectQuestions, TypeInv, TypeOK, BudgetType
  <2> QED
    BY <2>1, <2>2, <1>30, HubStable, RoomStable, LoopStable, StreamStable,
       GiveUpStable, OutStable, ClientStable
    DEF SelectQuestions, TypeInv, TypeOK
<1>31. ASSUME Crash
      PROVE  TypeInv'
  <2>1. HubType'
    BY <1>31 DEF Crash, TypeInv, TypeOK, HubType
  <2>2. RoomType'
    BY <1>31 DEF Crash, TypeInv, TypeOK, RoomType
  <2>3. LoopType' /\ RoundInv'
    BY <1>31 DEF Crash, TypeInv, TypeOK, LoopType, RoundInv, NeedsRound,
       LoopPlaces, Running, InMatch, Finishing, InRound, loopVars
  <2>4. StreamType'
    BY <1>31 DEF Crash, TypeInv, TypeOK, StreamType, StreamPlaces
  <2>5. GiveUpType'
    BY <1>31 DEF Crash, TypeInv, TypeOK, GiveUpType
  <2>6. ClientType'
    BY <1>31 DEF Crash, TypeInv, TypeOK, ClientType
  <2>7. BudgetType'
    BY <1>31 DEF Crash, TypeInv, TypeOK, BudgetType
  <2> QED
    BY <2>1, <2>2, <2>3, <2>4, <2>5, <2>6, <2>7, <1>31, RedisStable, OutStable
    DEF Crash, TypeInv, TypeOK
<1>32. ASSUME Expire
       PROVE  TypeInv'
  <2>1. RedisType'
    <3>1. RedisType
      BY DEF TypeInv, TypeOK
    <3>2. /\ left' \in {left, 0} /\ closed' \subseteq closed
          /\ entrants' = entrants
          /\ \/ submitted' = submitted
             \/ \E r \in Rounds : submitted' = [submitted EXCEPT ![r] = {}]
      BY <1>32 DEF Expire, ExpireMark, ExpireList, ExpireSubmitted
    <3>3. submitted' \in [Rounds -> SUBSET Players]
      BY <3>1, <3>2 DEF RedisType
    <3>4. left' \in 0..Total
      BY <3>1, <3>2 DEF RedisType
    <3> QED BY <3>1, <3>2, <3>3, <3>4 DEF RedisType
  <2>2. BudgetType'
    <3>1. /\ lapses \in [Rounds -> Nat] /\ expiries \in 0..MaxExpiries
          /\ selections \in 0..MaxSelections /\ crashes \in 0..MaxCrashes
      BY DEF TypeInv, TypeOK, BudgetType
    <3>2. /\ UNCHANGED <<selections, crashes>>
          /\ expiries' = expiries + 1 /\ expiries < MaxExpiries
          /\ \/ lapses' = lapses
             \/ \E r \in Rounds : lapses' = [lapses EXCEPT ![r] = lapses[r] + 1]
      BY <1>32 DEF Expire, ExpireMark, ExpireList, ExpireSubmitted
    <3>3. lapses' \in [Rounds -> Nat]
      BY <3>1, <3>2
    <3> QED BY <3>1, <3>2, <3>3 DEF BudgetType
  <2> QED
    BY <2>1, <2>2, <1>32, HubStable, RoomStable, LoopStable, StreamStable,
       GiveUpStable, OutStable, ClientStable
    DEF Expire, ExpireMark, ExpireList, ExpireSubmitted, TypeInv, TypeOK
<1>33. CASE UNCHANGED vars
  BY <1>33, HubStable, RoomStable, LoopStable, StreamStable, GiveUpStable,
     RedisStable, OutStable, ClientStable, BudgetStable
  DEF vars, TypeInv, TypeOK
<1> QED
  BY <1>1, <1>2, <1>3, <1>4, <1>5, <1>6, <1>7, <1>8, <1>9, <1>10, <1>11,
     <1>12, <1>13, <1>14, <1>15, <1>16, <1>17, <1>18, <1>19, <1>20, <1>21,
     <1>22, <1>23, <1>24, <1>25, <1>26, <1>27, <1>28, <1>29, <1>30, <1>31,
     <1>32, <1>33
  DEF Next, LoopStep, StreamStep, PlayerStep

LEMMA TypeInit == Init => TypeInv
BY ConstantsAssumption
DEF Init, TypeInv, TypeOK, HubType, RoomType, LoopType, StreamType,
    GiveUpType, RedisType, OutType, ClientType, BudgetType, RoundInv,
    NeedsRound, LoopPlaces, Running, InMatch, Finishing, InRound,
    StreamPlaces, Rooms, Rounds, NoRoom

LEMMA TypeInvariant == Spec => []TypeInv
BY TypeInit, TypeStep, PTL DEF Spec

\* What an expiry leaves alone: everything but the keys and the budgets.
LEMMA ExpireOnly ==
  Expire => /\ UNCHANGED <<hubVars, roomVars, loopVars, streamVars, giveUpVars,
                           outVars, clientVars, selections, crashes>>
            /\ left' \in {left, 0} /\ closed' \subseteq closed
BY DEF Expire, ExpireMark, ExpireList, ExpireSubmitted

\* Every variable keeps its type, whatever the number of players,
\* connections, questions, restarts and faults.
THEOREM TypeCorrect == Spec => []TypeOK
BY TypeInvariant, PTL DEF TypeInv

----------------------------------------------------------------------------
(* The loop and the hub.  LoopOwnsHub alone is not inductive: a handler    *)
(* between its look-up and its startOnce is about to start a loop, and may *)
(* hold a room object that is not the one in the hub any more.  It holds   *)
(* one whose loop was never started only while the hub does, because only  *)
(* that loop's own exit takes the object out of the hub.                   *)

StartersHoldHub ==
  \A c \in Conns :
    stream[c] \in {"resolved", "joined"} =>
      /\ ref[c] \in Rooms
      /\ loop[ref[c]] = "none" => hub = ref[c]

HubInv == LoopOwnsHub /\ StartersHoldHub

\* A step of a running loop other than its last leaves it running and the
\* hub as it is; it can only take handlers out of their start-up.
LEMMA LoopMoves ==
  ASSUME TypeInv, NEW o \in Rooms, LoopStep(o), loop[o] # "delete"
  PROVE  /\ loop[o] \in Running /\ loop'[o] \in Running
         /\ \A q \in Rooms \ {o} : loop'[q] = loop[q]
         /\ hub' = hub /\ ref' = ref
         /\ \A c \in Conns : stream'[c] # "ended" => stream'[c] = stream[c]
BY DEF LoopStep, LobbyOver, CheckActive, NameSole, PopQuestion, AskQuestion,
       TickCount, TickCompare, TimerExpires, CloseRound, PublishCompleted,
       CheckRemaining, AfterRound, AfterRoundOne, NameSoleAfter, RoundResult,
       MatchEnd, UpdateRatings, SaveHistory, CloseAll, HubDelete, Goto,
       LoopOnly, hubVars, streamVars, Running, InMatch, Finishing, InRound,
       TypeInv, TypeOK, LoopType, StreamType

LEMMA HubStep == TypeInv /\ HubInv /\ [Next]_vars => HubInv'
<1> SUFFICES ASSUME TypeInv, HubInv, [Next]_vars
             PROVE  HubInv'
  OBVIOUS
<1> USE DEF Rooms, NoRoom
<1>1. ASSUME NEW o \in Rooms, LoopStep(o), loop[o] # "delete"
      PROVE  HubInv'
  BY <1>1, LoopMoves DEF HubInv, LoopOwnsHub, StartersHoldHub, Running,
     InMatch, Finishing, InRound
<1>2. ASSUME NEW o \in Rooms, HubDelete(o)
      PROVE  HubInv'
  BY <1>2 DEF HubDelete, Goto, HubInv, LoopOwnsHub, StartersHoldHub, Running,
     InMatch, Finishing, InRound, streamVars, TypeInv, TypeOK, LoopType
<1>3. ASSUME NEW c \in Conns, StreamLookup(c)
      PROVE  HubInv'
  BY <1>3 DEF StreamLookup, HubInv, LoopOwnsHub, StartersHoldHub, hubVars,
     loopVars, TypeInv, TypeOK, StreamType, HubType
<1>4. ASSUME NEW c \in Conns, StreamCount(c)
      PROVE  HubInv'
  BY <1>4 DEF StreamCount, HubInv, LoopOwnsHub, StartersHoldHub, hubVars,
     loopVars, TypeInv, TypeOK, StreamType
<1>5. ASSUME NEW c \in Conns, StreamCreate(c)
      PROVE  HubInv'
  \* A room is added only where the hub has none, when no loop runs and no
  \* handler is about to start one.
  <2>1. PICK o \in Rooms : /\ GetOrCreate(o, want[c])
                           /\ ref' = [ref EXCEPT ![c] = o]
    BY <1>5 DEF StreamCreate
  <2>2. hub' = o /\ (hub = o \/ hub = NoRoom)
    BY <2>1 DEF GetOrCreate, hubVars
  <2> QED
    BY <2>1, <2>2, <1>5 DEF StreamCreate, HubInv, LoopOwnsHub,
       StartersHoldHub, loopVars, TypeInv, TypeOK, StreamType
<1>6. ASSUME NEW c \in Conns, StreamSubscribe(c)
      PROVE  HubInv'
  BY <1>6 DEF StreamSubscribe, HubInv, LoopOwnsHub, StartersHoldHub, hubVars,
     loopVars, TypeInv, TypeOK, StreamType
<1>7. ASSUME NEW c \in Conns, StreamStart(c)
      PROVE  HubInv'
  BY <1>7 DEF StreamStart, HubInv, LoopOwnsHub, StartersHoldHub, hubVars,
     TypeInv, TypeOK, StreamType, LoopType
<1>8. ASSUME NEW c \in Conns, Disconnect(c)
      PROVE  HubInv'
  BY <1>8 DEF Disconnect, HubInv, LoopOwnsHub, StartersHoldHub, hubVars,
     loopVars, TypeInv, TypeOK, StreamType
<1>9. ASSUME NEW p \in Players, Forfeit(p)
      PROVE  HubInv'
  <2>1. PICK o \in Rooms : GetOrCreate(o, 0)
    BY <1>9 DEF Forfeit
  <2>2. hub' = o /\ (hub = o \/ hub = NoRoom)
    BY <2>1 DEF GetOrCreate, hubVars
  <2> QED
    BY <2>2, <1>9 DEF Forfeit, HubInv, LoopOwnsHub, StartersHoldHub,
       loopVars, streamVars
<1>10. ASSUME Crash
       PROVE  HubInv'
  BY <1>10 DEF Crash, HubInv, LoopOwnsHub, StartersHoldHub, Running, InMatch,
     Finishing, InRound, InHandler, TypeInv, TypeOK, StreamType
<1>11. ASSUME UNCHANGED <<hub, loop, stream, ref>>
       PROVE  HubInv'
  BY <1>11 DEF HubInv, LoopOwnsHub, StartersHoldHub
<1>12. ASSUME NEW p \in Players, PlayerStep(p), ~Forfeit(p)
       PROVE  UNCHANGED <<hub, loop, stream, ref>>
  BY <1>12 DEF PlayerStep, SubmitAnswer, MarkForfeited, hubVars, loopVars,
     streamVars
<1>13. SelectQuestions \/ Expire \/ UNCHANGED vars
         => UNCHANGED <<hub, loop, stream, ref>>
  BY ExpireOnly DEF SelectQuestions, vars, hubVars, loopVars, streamVars
<1>14. ASSUME NEW o \in Rooms, LoopStep(o), loop[o] = "delete"
       PROVE  HubDelete(o)
  BY <1>14 DEF LoopStep, LobbyOver, CheckActive, NameSole, PopQuestion,
     AskQuestion, TickCount, TickCompare, TimerExpires, CloseRound,
     PublishCompleted, CheckRemaining, AfterRound, AfterRoundOne,
     NameSoleAfter, RoundResult, MatchEnd, UpdateRatings, SaveHistory, CloseAll
<1> QED
  BY <1>1, <1>2, <1>3, <1>4, <1>5, <1>6, <1>7, <1>8, <1>9, <1>10, <1>11,
     <1>12, <1>13, <1>14
  DEF Next, StreamStep, PlayerStep

LEMMA HubInit == Init => HubInv
BY DEF Init, HubInv, LoopOwnsHub, StartersHoldHub, Running, InMatch,
       Finishing, InRound

LEMMA HubInvariant == Spec => []HubInv
BY HubInit, HubStep, TypeInvariant, PTL DEF Spec

\* The deferred hub.delete(roomID) of a loop always removes the loop's own
\* room object from the hub, never a successor's (quiz_handler.go:442).
THEOREM HubOwnership == Spec => []LoopOwnsHub
BY HubInvariant, PTL DEF HubInv

LEMMA OwnersAreOne == LoopOwnsHub => OneLoopAtATime
BY DEF LoopOwnsHub, OneLoopAtATime

\* Two game loops of one roomID never run at the same time.
THEOREM MutualExclusion == Spec => []OneLoopAtATime
BY HubOwnership, OwnersAreOne, PTL

----------------------------------------------------------------------------
(* round.completed.  The key round:{n}:closed is set before the event is   *)
(* published; between the two the loop that set it is the only one that    *)
(* runs, and counts as if it had published.  So there is a mark for every  *)
(* event, or one that has expired.                                         *)

\* How many events the loop of some room is about to publish for round r.
Due(r) == IF \E o \in Rooms : loop[o] = "publish" /\ round[o] = r THEN 1 ELSE 0

Mark(r) == IF r \in closed THEN 1 ELSE 0

CompletedInv == \A r \in Rounds : completed[r] + Due(r) <= lapses[r] + Mark(r)

LEMMA CompletedStep ==
  TypeInv /\ HubInv /\ CompletedInv /\ [Next]_vars => CompletedInv'
<1> SUFFICES ASSUME TypeInv, HubInv, CompletedInv, [Next]_vars
             PROVE  CompletedInv'
  OBVIOUS
<1> USE DEF CompletedInv
<1>0. OneLoopAtATime
  BY OwnersAreOne DEF HubInv
<1>t. /\ completed \in [Rounds -> Nat] /\ completed' \in [Rounds -> Nat]
      /\ lapses \in [Rounds -> Nat] /\ lapses' \in [Rounds -> Nat]
  BY TypeStep DEF TypeInv, TypeOK, OutType, BudgetType
\* Nothing is published, no mark is lost and no event falls due.
<1>s. ASSUME UNCHANGED <<round, completed, lapses>>, closed \subseteq closed',
             \A o \in Rooms : loop'[o] = "publish" => loop[o] = "publish"
      PROVE  CompletedInv'
  <2>1. \A r \in Rounds : Due(r)' <= Due(r) /\ Mark(r) <= Mark(r)'
    BY <1>s DEF Due, Mark, Rooms
  <2>2. \A r \in Rounds : Due(r) \in Nat /\ Due(r)' \in Nat
                           /\ Mark(r) \in Nat /\ Mark(r)' \in Nat
    BY DEF Due, Mark
  <2> QED BY <1>t, <1>s, <2>1, <2>2
<1>1. ASSUME NEW o \in Rooms, CloseRound(o)
      PROVE  CompletedInv'
  <2>1. /\ loop[o] = "close" /\ closed \subseteq closed'
        /\ \A q \in Rooms \ {o} : loop'[q] = loop[q] /\ loop[q] # "publish"
        /\ UNCHANGED <<round, completed, lapses>>
    BY <1>0, <1>1 DEF CloseRound, Goto, outVars, budgetVars, OneLoopAtATime,
       Running, InMatch, InRound, TypeInv, TypeOK, LoopType
  <2>2. CASE loop'[o] # "publish"
    BY <2>1, <2>2, <1>s
  <2>3. CASE loop'[o] = "publish"
    <3>1. round[o] \notin closed /\ closed' = closed \cup {round[o]}
      BY <2>3, <1>1 DEF CloseRound, Goto, TypeInv, TypeOK, LoopType
    <3>2. \A r \in Rounds \ {round[o]} : Due(r)' = 0 /\ Mark(r)' = Mark(r)
      BY <2>1, <3>1 DEF Due, Mark, Rooms
    <3>3. \A r \in Rounds : Due(r) = 0
      BY <2>1 DEF Due
    <3>4. Due(round[o])' = 1 /\ Mark(round[o]) = 0 /\ Mark(round[o])' = 1
      BY <2>1, <2>3, <3>1 DEF Due, Mark, Rooms
    <3> QED BY <1>t, <2>1, <3>2, <3>3, <3>4 DEF Mark
  <2> QED BY <2>2, <2>3
<1>2. ASSUME NEW o \in Rooms, PublishCompleted(o)
      PROVE  CompletedInv'
  <2>1. /\ loop[o] = "publish" /\ loop'[o] = "remaining"
        /\ \A q \in Rooms \ {o} : loop'[q] = loop[q] /\ loop[q] # "publish"
        /\ UNCHANGED <<round, closed, lapses>>
    BY <1>0, <1>2 DEF PublishCompleted, Goto, redisVars, budgetVars,
       OneLoopAtATime, Running, InMatch, InRound, TypeInv, TypeOK, LoopType
  <2>2. round[o] \in Rounds
    BY <2>1 DEF TypeInv, TypeOK, LoopType, RoundInv, Rounds, NeedsRound, InRound
  <2>3. \A r \in Rounds : Due(r)' = 0 /\ Mark(r)' = Mark(r)
    BY <2>1 DEF Due, Mark, Rooms
  <2>4. Due(round[o]) = 1 /\ \A r \in Rounds : Due(r) \in {0, 1}
    BY <2>1 DEF Due
  <2>5. \A r \in Rounds : completed'[r] = completed[r]
                           \/ (r = round[o] /\ completed'[r] = completed[r] + 1)
    <3>1. \/ completed' = [completed EXCEPT ![round[o]] = completed[round[o]] + 1]
          \/ completed' = completed
      BY <1>2 DEF PublishCompleted
    <3> QED BY <1>t, <2>2, <3>1
  <2> QED
    BY <1>t, <2>1, <2>3, <2>4, <2>5 DEF Mark
<1>3. ASSUME NEW o \in Rooms, LoopStep(o), ~CloseRound(o), ~PublishCompleted(o)
      PROVE  CompletedInv'
  <2>1. /\ loop'[o] # "publish"
        /\ \A q \in Rooms \ {o} : loop'[q] = loop[q] /\ round'[q] = round[q]
        /\ UNCHANGED <<closed, completed, lapses>>
    BY <1>3 DEF LoopStep, LobbyOver, CheckActive, NameSole, PopQuestion,
       AskQuestion, TickCount, TickCompare, TimerExpires, CheckRemaining,
       AfterRound, AfterRoundOne, NameSoleAfter, RoundResult, MatchEnd,
       UpdateRatings, SaveHistory, CloseAll, HubDelete, Goto, LoopOnly,
       redisVars, outVars, budgetVars, TypeInv, TypeOK, LoopType
  <2>2. \A r \in Rounds : Due(r)' <= Due(r) /\ Mark(r)' = Mark(r)
    BY <2>1 DEF Due, Mark, Rooms
  <2>3. \A r \in Rounds : Due(r) \in Nat /\ Due(r)' \in Nat /\ Mark(r) \in Nat
    BY DEF Due, Mark
  <2> QED
    BY <1>t, <2>1, <2>2, <2>3
<1>4. ASSUME NEW c \in Conns, StreamStep(c)
      PROVE  CompletedInv'
  <2>1. /\ \A q \in Rooms : loop'[q] = loop[q] \/ loop'[q] = "lobby"
        /\ UNCHANGED <<round, closed, completed, lapses>>
    BY <1>4 DEF StreamStep, StreamLookup, StreamCount, StreamCreate,
       StreamSubscribe, StreamStart, Disconnect, loopVars, redisVars, outVars,
       budgetVars, TypeInv, TypeOK, LoopType
  <2> QED
    BY <2>1, <1>s
<1>5. ASSUME \/ \E p \in Players : PlayerStep(p)
             \/ SelectQuestions
             \/ ExpireList \/ \E r \in Rounds : ExpireSubmitted(r)
             \/ UNCHANGED vars
      PROVE  CompletedInv'
  <2>1. UNCHANGED <<loop, round, closed, completed, lapses>>
    BY <1>5 DEF PlayerStep, SubmitAnswer, Forfeit, MarkForfeited,
       SelectQuestions, ExpireList, ExpireSubmitted, vars, loopVars, redisVars,
       outVars, budgetVars
  <2> QED
    BY <2>1, <1>s
<1>6. ASSUME Crash
      PROVE  CompletedInv'
  <2>1. /\ \A r \in Rounds : Due(r)' = 0
        /\ UNCHANGED <<closed, completed, lapses>>
    BY <1>6 DEF Crash, redisVars, outVars, Due, Rooms
  <2>2. \A r \in Rounds : Due(r) \in {0, 1} /\ Mark(r) \in Nat
                           /\ Mark(r)' = Mark(r)
    BY <2>1 DEF Due, Mark
  <2> QED BY <1>t, <2>1, <2>2
\* What was a mark is an expiry now.
<1>7. ASSUME NEW r \in Rounds, ExpireMark(r)
      PROVE  CompletedInv'
  <2>1. /\ r \in closed /\ closed' = closed \ {r}
        /\ lapses' = [lapses EXCEPT ![r] = lapses[r] + 1]
        /\ UNCHANGED <<loop, round, completed>>
    BY <1>7 DEF ExpireMark, loopVars, outVars
  <2>2. \A q \in Rounds : Due(q)' = Due(q) /\ Due(q) \in {0, 1}
    BY <2>1 DEF Due, Rooms
  <2>3. \A q \in Rounds : lapses'[q] + Mark(q)' = lapses[q] + Mark(q)
    BY <1>t, <2>1 DEF Mark
  <2> QED BY <1>t, <2>1, <2>2, <2>3
<1> QED
  BY <1>1, <1>2, <1>3, <1>4, <1>5, <1>6, <1>7 DEF Next, Expire

LEMMA CompletedInit == Init => CompletedInv
BY DEF Init, CompletedInv, Due, Mark

\* A round of a room is completed once by all of its loops together, in all
\* runs of the service, duplicated match.created included, and once more only
\* for each time that the 30 minutes of its mark are over (quiz.go:187-217).
THEOREM CompletedOnce == Spec => []RoundCompletedOnce
<1>1. Init => TypeInv /\ HubInv /\ CompletedInv
  BY TypeInit, HubInit, CompletedInit
<1>2. TypeInv /\ HubInv /\ CompletedInv /\ [Next]_vars
        => (TypeInv /\ HubInv /\ CompletedInv)'
  BY TypeStep, HubStep, CompletedStep
<1>3. TypeInv /\ CompletedInv => RoundCompletedOnce
  BY DEF CompletedInv, RoundCompletedOnce, Due, Mark, TypeInv, TypeOK, OutType,
     BudgetType
<1> QED
  BY <1>1, <1>2, <1>3, PTL DEF Spec

----------------------------------------------------------------------------
(* match.finished.  Stored questions allow one more event until the loop   *)
(* that popped the last of them has read the length of the list.           *)

Pending ==
  left > 0 \/ \E o \in Rooms : loop[o] \in InRound \ {"pop"}

FinishedInv ==
  ~Faults => /\ finished <= selections
             /\ Pending => finished < selections

LEMMA FinishedStep ==
  TypeInv /\ HubInv /\ FinishedInv /\ [Next]_vars => FinishedInv'
<1> SUFFICES ASSUME TypeInv, HubInv, FinishedInv, [Next]_vars, ~Faults
             PROVE  FinishedInv'
  BY DEF FinishedInv
<1> USE DEF FinishedInv
<1>0. OneLoopAtATime
  BY OwnersAreOne DEF HubInv
<1>t. finished \in Nat /\ selections \in Nat /\ left \in Nat
  BY ConstantsAssumption DEF TypeInv, TypeOK, OutType, RedisType, BudgetType
<1>1. ASSUME UNCHANGED <<finished, selections>>, Pending' => Pending
      PROVE  FinishedInv'
  BY <1>1
<1>2. ASSUME NEW o \in Rooms, PopQuestion(o)
      PROVE  FinishedInv'
  <2>1. /\ UNCHANGED <<finished, selections>>
        /\ left > 0 \/ (left' = left /\ loop'[o] = "closing")
        /\ \A q \in Rooms \ {o} : loop'[q] = loop[q]
    BY <1>2 DEF PopQuestion, Goto, outVars, budgetVars, TypeInv,
       TypeOK, LoopType
  <2> QED
    BY <2>1, <1>1 DEF Pending, InRound
<1>3. ASSUME NEW o \in Rooms, CheckRemaining(o)
      PROVE  FinishedInv'
  <2>1. /\ loop[o] = "remaining" /\ loop'[o] = "after" /\ left' = left
        /\ \A q \in Rooms \ {o} : loop'[q] = loop[q]
                                  /\ loop[q] \notin InRound
        /\ selections' = selections
    BY <1>0, <1>3 DEF CheckRemaining, Goto, redisVars, budgetVars,
       OneLoopAtATime, Running, InMatch, InRound, TypeInv, TypeOK, LoopType
  <2>2. finished < selections
    BY <2>1 DEF Pending, InRound
  <2>3. CASE left = 0
    <3>1. ~Pending'
      BY <2>1, <2>3 DEF Pending, InRound
    <3>2. finished' = finished + 1
      BY <2>3, <1>3 DEF CheckRemaining
    <3> QED BY <3>1, <3>2, <2>1, <2>2, <1>t
  <2>4. CASE left > 0
    <3>1. finished' = finished
      BY <2>4, <1>3 DEF CheckRemaining
    <3> QED BY <3>1, <2>1, <2>2, <1>t
  <2> QED
    BY <2>3, <2>4, <1>t
<1>4. ASSUME NEW o \in Rooms, LoopStep(o), ~PopQuestion(o), ~CheckRemaining(o)
      PROVE  UNCHANGED <<finished, selections>> /\ (Pending' => Pending)
  <2>1. /\ UNCHANGED <<finished, selections, left>>
        /\ loop'[o] \in InRound \ {"pop"} => loop[o] \in InRound \ {"pop"}
        /\ \A q \in Rooms \ {o} : loop'[q] = loop[q]
    BY <1>4 DEF LoopStep, LobbyOver, CheckActive, NameSole, AskQuestion,
       TickCount, TickCompare, TimerExpires, CloseRound, PublishCompleted,
       AfterRound, AfterRoundOne, NameSoleAfter, RoundResult, MatchEnd,
       UpdateRatings, SaveHistory, CloseAll, HubDelete, Goto, LoopOnly,
       InRound, redisVars, outVars, budgetVars, TypeInv, TypeOK, LoopType
  <2> QED
    BY <2>1 DEF Pending
<1>5. ASSUME NEW c \in Conns, StreamStep(c)
      PROVE  UNCHANGED <<finished, selections>> /\ (Pending' => Pending)
  <2>1. /\ UNCHANGED <<finished, selections, left>>
        /\ \A q \in Rooms : loop'[q] = loop[q] \/ loop'[q] = "lobby"
    BY <1>5 DEF StreamStep, StreamLookup, StreamCount, StreamCreate,
       StreamSubscribe, StreamStart, Disconnect, loopVars, redisVars, outVars,
       budgetVars, TypeInv, TypeOK, LoopType
  <2> QED
    BY <2>1 DEF Pending, InRound
<1>6. ASSUME (\E p \in Players : PlayerStep(p)) \/ UNCHANGED vars
      PROVE  UNCHANGED <<finished, selections>> /\ (Pending' => Pending)
  <2>1. UNCHANGED <<finished, selections, left, loop>>
    BY <1>6 DEF PlayerStep, SubmitAnswer, Forfeit, MarkForfeited, vars,
       loopVars, redisVars, outVars, budgetVars
  <2> QED
    BY <2>1 DEF Pending
<1>7. ASSUME Crash
      PROVE  UNCHANGED <<finished, selections>> /\ (Pending' => Pending)
  BY <1>7 DEF Crash, Pending, InRound, redisVars, outVars
<1>8. ASSUME SelectQuestions
      PROVE  FinishedInv'
  BY <1>8, <1>t DEF SelectQuestions, outVars
<1>9. ASSUME Expire
      PROVE  UNCHANGED <<finished, selections>> /\ (Pending' => Pending)
  BY <1>9, <1>t, ExpireOnly DEF Pending, loopVars, outVars
<1> QED
  BY <1>1, <1>2, <1>3, <1>4, <1>5, <1>6, <1>7, <1>8, <1>9 DEF Next

LEMMA FinishedInit == Init => FinishedInv
BY DEF Init, FinishedInv, Pending, InRound

\* While LLEN does not fail, a stored list of questions is the cause of at
\* most one match.finished, also when the list expires (quiz.go:219-228).
THEOREM FinishedOnce == Spec => []FinishedOncePerSelection
<1>1. Init => TypeInv /\ HubInv /\ FinishedInv
  BY TypeInit, HubInit, FinishedInit
<1>2. TypeInv /\ HubInv /\ FinishedInv /\ [Next]_vars
        => (TypeInv /\ HubInv /\ FinishedInv)'
  BY TypeStep, HubStep, FinishedStep
<1>3. FinishedInv => FinishedOncePerSelection
  BY DEF FinishedInv, FinishedOncePerSelection
<1> QED
  BY <1>1, <1>2, <1>3, PTL DEF Spec

----------------------------------------------------------------------------
(* The early exit of a round.  What a connection was shown ties it to the  *)
(* room object and its player to the active map; only a forfeit removes a  *)
(* player from that map, so that a tick counts everybody who still waits.  *)

AudienceInv ==
  \A c \in Conns :
    /\ \A o \in Rooms : c \in subs[o] =>
         stream[c] \in {"joined", "streaming"} /\ ref[c] = o
    /\ got[c] # {} => stream[c] \in {"joined", "streaming", "gone", "ended"}
    /\ stream[c] \in {"joined", "streaming"} \/ got[c] # {} =>
         /\ ref[c] \in Rooms
         /\ Owner[c] \in active[ref[c]] \/ forfeit[Owner[c]] # "no"

TickInv ==
  \A o \in Rooms : loop[o] = "tick" => Cardinality(Waiting(o)) <= seen[o]

\* If S is at least as large as W, what W has beyond S is no larger than what
\* S has beyond W.
LEMMA SurplusCovers ==
  ASSUME NEW W, NEW S, IsFiniteSet(W), IsFiniteSet(S),
         Cardinality(S) >= Cardinality(W)
  PROVE  Cardinality(W \ S) <= Cardinality(S \ W)
<1>1. /\ Cardinality(W \ S) = Cardinality(W) - Cardinality(W \cap S)
      /\ Cardinality(S \ W) = Cardinality(S) - Cardinality(S \cap W)
  BY FS_Difference
<1>2. W \cap S = S \cap W
  OBVIOUS
<1>3. Cardinality(W) \in Nat /\ Cardinality(S) \in Nat
  BY FS_CardinalityType
<1>4. Cardinality(S \cap W) \in Nat
  BY FS_CardinalityType, FS_Intersection
<1>5. Cardinality(W \cap S) = Cardinality(S \cap W)
  BY <1>2
<1> QED
  BY ONLY <1>1, <1>3, <1>4, <1>5, Cardinality(S) >= Cardinality(W), SMT

LEMMA WaitingFinite ==
  ASSUME NEW o \in Rooms
  PROVE  IsFiniteSet(Waiting(o)) /\ Waiting(o) \subseteq Players
<1>1. Waiting(o) \subseteq Players
  BY DEF Waiting
<1> QED
  BY <1>1, FS_Subset, ConstantsAssumption

LEMMA AudienceStep ==
  TypeInv /\ HubInv /\ AudienceInv /\ [Next]_vars => AudienceInv'
<1> SUFFICES ASSUME TypeInv, HubInv, AudienceInv, [Next]_vars
             PROVE  AudienceInv'
  OBVIOUS
<1> USE ConstantsAssumption DEF Rooms
<1>1. ASSUME UNCHANGED <<active, subs, stream, ref, forfeit, got>>
      PROVE  AudienceInv'
  BY <1>1 DEF AudienceInv
<1>2. ASSUME NEW o \in Rooms, AskQuestion(o)
      PROVE  AudienceInv'
  BY <1>2 DEF AskQuestion, Audience, AudienceInv, roomVars, streamVars,
     giveUpVars, TypeInv, TypeOK, ClientType
<1>3. ASSUME NEW o \in Rooms, CloseAll(o)
      PROVE  AudienceInv'
  BY <1>3 DEF CloseAll, AudienceInv, giveUpVars, TypeInv, TypeOK, RoomType,
     StreamType
<1>4. ASSUME NEW o \in Rooms, LoopStep(o), ~AskQuestion(o), ~CloseAll(o)
      PROVE  UNCHANGED <<active, subs, stream, ref, forfeit, got>>
  BY <1>4 DEF LoopStep, LobbyOver, CheckActive, NameSole, PopQuestion,
     TickCount, TickCompare, TimerExpires, CloseRound, PublishCompleted,
     CheckRemaining, AfterRound, AfterRoundOne, NameSoleAfter, RoundResult,
     MatchEnd, UpdateRatings, SaveHistory, HubDelete, LoopOnly, roomVars,
     streamVars, giveUpVars, clientVars
<1>5. ASSUME NEW c \in Conns, StreamStep(c), ~StreamSubscribe(c)
      PROVE  AudienceInv'
  <2>1. got[c] # {} => stream[c] \in {"joined", "streaming", "gone", "ended"}
    BY DEF AudienceInv
  <2>2. CASE StreamLookup(c) \/ StreamCount(c) \/ StreamCreate(c)
    BY <2>1, <2>2 DEF StreamLookup, StreamCount, StreamCreate, AudienceInv,
       roomVars, giveUpVars, clientVars, TypeInv, TypeOK, StreamType
  <2>3. CASE StreamStart(c)
    BY <2>3 DEF StreamStart, AudienceInv, roomVars, giveUpVars, clientVars,
       TypeInv, TypeOK, StreamType
  <2>4. CASE Disconnect(c)
    BY <2>4 DEF Disconnect, AudienceInv, giveUpVars, clientVars,
       TypeInv, TypeOK, StreamType, RoomType
  <2> QED
    BY <2>2, <2>3, <2>4, <1>5 DEF StreamStep
<1>6. ASSUME NEW c \in Conns, StreamSubscribe(c)
      PROVE  AudienceInv'
  <2>1. ref[c] \in Rooms /\ stream[c] = "resolved"
    BY <1>6 DEF StreamSubscribe, HubInv, StartersHoldHub
  <2> QED
    BY <2>1, <1>6 DEF StreamSubscribe, AudienceInv, giveUpVars, clientVars,
       TypeInv, TypeOK, StreamType, RoomType
<1>7. ASSUME NEW p \in Players, Forfeit(p)
      PROVE  AudienceInv'
  BY <1>7 DEF Forfeit, AudienceInv, roomVars, streamVars, clientVars,
     TypeInv, TypeOK, GiveUpType
<1>8. ASSUME NEW p \in Players, MarkForfeited(p)
      PROVE  AudienceInv'
  BY <1>8 DEF MarkForfeited, AudienceInv, streamVars, clientVars,
     TypeInv, TypeOK, GiveUpType, RoomType
<1>9. ASSUME \/ \E p \in Players, r \in Rounds : SubmitAnswer(p, r)
             \/ SelectQuestions \/ Expire
             \/ UNCHANGED vars
      PROVE  UNCHANGED <<active, subs, stream, ref, forfeit, got>>
  BY <1>9, ExpireOnly DEF SubmitAnswer, SelectQuestions, vars, roomVars, streamVars,
     giveUpVars, clientVars
<1>10. ASSUME Crash
       PROVE  AudienceInv'
  BY <1>10 DEF Crash, AudienceInv, InHandler
<1> QED
  BY <1>1, <1>2, <1>3, <1>4, <1>5, <1>6, <1>7, <1>8, <1>9, <1>10
  DEF Next, PlayerStep, StreamStep

LEMMA AudienceInit == Init => AudienceInv
BY DEF Init, AudienceInv

LEMMA TickStep ==
  TypeInv /\ HubInv /\ AudienceInv /\ TickInv /\ [Next]_vars => TickInv'
<1> SUFFICES ASSUME TypeInv, HubInv, AudienceInv, TickInv, [Next]_vars,
                    NEW o \in Rooms, loop'[o] = "tick"
             PROVE  Cardinality(Waiting(o)') <= seen'[o]
  BY DEF TickInv
\* A step that leaves the loop at its tick shows nobody a question.
<1>1. ASSUME loop[o] = "tick", seen'[o] = seen[o], round'[o] = round[o],
             \A p \in Players : forfeit'[p] = "no" => forfeit[p] = "no",
             \A c \in Conns : ref'[c] = o /\ round[o] \in got'[c]
                                => ref[c] = o /\ round[o] \in got[c]
      PROVE  Cardinality(Waiting(o)') <= seen'[o]
  <2>1. Waiting(o)' \subseteq Waiting(o)
    BY <1>1 DEF Waiting
  <2>2. IsFiniteSet(Waiting(o))
    BY WaitingFinite
  <2>3. Waiting(o)' \in SUBSET Waiting(o)
    BY <2>1
  <2>4. /\ IsFiniteSet(Waiting(o)')
        /\ Cardinality(Waiting(o)') <= Cardinality(Waiting(o))
    BY <2>2, <2>3, FS_Subset
  <2>5. Cardinality(Waiting(o)') \in Nat /\ Cardinality(Waiting(o)) \in Nat
    BY <2>2, <2>4, FS_CardinalityType
  <2>6. Cardinality(Waiting(o)) <= seen[o] /\ seen[o] \in Nat
    BY <1>1 DEF TickInv, TypeInv, TypeOK, LoopType
  <2> QED
    BY <2>4, <2>5, <2>6, <1>1
\* The count itself: whoever waits is active.
<1>2. ASSUME TickCount(o)
      PROVE  Cardinality(Waiting(o)') <= seen'[o]
  <2>1. Waiting(o)' = Waiting(o)
    BY <1>2 DEF TickCount, Waiting, LoopOnly, giveUpVars, streamVars,
       clientVars
  <2>2. Waiting(o) \subseteq active[o]
    BY DEF Waiting, AudienceInv
  <2>3. IsFiniteSet(active[o])
    BY ConstantsAssumption, FS_Subset DEF TypeInv, TypeOK, RoomType
  <2>4. Cardinality(Waiting(o)) <= Cardinality(active[o])
    BY <2>2, <2>3, FS_Subset
  <2>5. seen'[o] = Cardinality(active[o])
    BY <1>2 DEF TickCount, ActiveCount, TypeInv, TypeOK, LoopType
  <2> QED
    BY <2>1, <2>4, <2>5
<1>3. ASSUME LoopStep(o), ~TickCount(o)
      PROVE  FALSE
  BY <1>3 DEF LoopStep, LobbyOver, CheckActive, NameSole, PopQuestion,
     AskQuestion, TickCompare, TimerExpires, CloseRound, PublishCompleted,
     CheckRemaining, AfterRound, AfterRoundOne, NameSoleAfter, RoundResult,
     MatchEnd, UpdateRatings, SaveHistory, CloseAll, HubDelete, Goto,
     TypeInv, TypeOK, LoopType
<1>4. ASSUME NEW q \in Rooms \ {o}, LoopStep(q)
      PROVE  FALSE
  <2>1. loop[q] \in Running /\ loop'[o] = loop[o]
    <3>1. CASE loop[q] = "delete"
      BY <1>4, <3>1 DEF LoopStep, LobbyOver, CheckActive, NameSole,
         PopQuestion, AskQuestion, TickCount, TickCompare, TimerExpires,
         CloseRound, PublishCompleted, CheckRemaining, AfterRound,
         AfterRoundOne, NameSoleAfter, RoundResult, MatchEnd, UpdateRatings,
         SaveHistory, CloseAll, HubDelete, Goto, Running, Finishing, TypeInv,
         TypeOK, LoopType
    <3> QED
      BY <1>4, <3>1, LoopMoves
  <2>2. OneLoopAtATime
    BY OwnersAreOne DEF HubInv
  <2> QED
    BY <2>1, <2>2, <1>4 DEF OneLoopAtATime, Running, InMatch, InRound
<1>5. ASSUME NEW c \in Conns, StreamStep(c)
      PROVE  Cardinality(Waiting(o)') <= seen'[o]
  <2>1. /\ loop[o] = "tick" /\ seen' = seen /\ round' = round
        /\ forfeit' = forfeit /\ got' = got
    BY <1>5 DEF StreamStep, StreamLookup, StreamCount, StreamCreate,
       StreamSubscribe, StreamStart, Disconnect, loopVars, giveUpVars,
       clientVars, TypeInv, TypeOK, LoopType
  <2>2. \A d \in Conns : got[d] # {} => ref'[d] = ref[d]
    BY <1>5 DEF StreamStep, StreamLookup, StreamCount, StreamCreate,
       StreamSubscribe, StreamStart, Disconnect, AudienceInv, TypeInv,
       TypeOK, StreamType
  <2> QED
    BY <2>1, <2>2, <1>1
<1>6. ASSUME NEW p \in Players, PlayerStep(p)
      PROVE  Cardinality(Waiting(o)') <= seen'[o]
  <2>1. /\ loop' = loop /\ seen' = seen /\ round' = round /\ ref' = ref
        /\ got' = got
        /\ \A q \in Players : forfeit'[q] = "no" => forfeit[q] = "no"
    BY <1>6 DEF PlayerStep, SubmitAnswer, Forfeit, MarkForfeited, loopVars,
       streamVars, giveUpVars, clientVars, TypeInv, TypeOK, GiveUpType
  <2> QED
    BY <2>1, <1>1
<1>7. ASSUME SelectQuestions \/ Expire \/ UNCHANGED vars
      PROVE  Cardinality(Waiting(o)') <= seen'[o]
  <2>1. /\ loop' = loop /\ seen' = seen /\ round' = round /\ ref' = ref
        /\ got' = got /\ forfeit' = forfeit
    BY <1>7, ExpireOnly DEF SelectQuestions, vars, loopVars, streamVars, giveUpVars,
       clientVars
  <2> QED
    BY <2>1, <1>1
<1>8. ASSUME Crash
      PROVE  FALSE
  BY <1>8 DEF Crash
<1> QED
  BY <1>2, <1>3, <1>4, <1>5, <1>6, <1>7, <1>8 DEF Next

LEMMA TickInit == Init => TickInv
BY DEF Init, TickInv

\* Only the comparison of a tick goes from there to the close of the round.
LEMMA OnlyTicksCompare ==
  ASSUME TypeInv, [Next]_vars, NEW o \in Rooms,
         loop[o] = "tick", loop'[o] = "close"
  PROVE  TickCompare(o)
<1>1. ASSUME LoopStep(o)
      PROVE  TickCompare(o)
  BY <1>1 DEF LoopStep, LobbyOver, CheckActive, NameSole, PopQuestion,
     AskQuestion, TickCount, TimerExpires, CloseRound, PublishCompleted,
     CheckRemaining, AfterRound, AfterRoundOne, NameSoleAfter, RoundResult,
     MatchEnd, UpdateRatings, SaveHistory, CloseAll, HubDelete
<1>2. ASSUME NEW q \in Rooms \ {o}, LoopStep(q)
      PROVE  loop'[o] = loop[o]
  BY <1>2 DEF LoopStep, LobbyOver, CheckActive, NameSole, PopQuestion,
     AskQuestion, TickCount, TickCompare, TimerExpires, CloseRound,
     PublishCompleted, CheckRemaining, AfterRound, AfterRoundOne,
     NameSoleAfter, RoundResult, MatchEnd, UpdateRatings, SaveHistory,
     CloseAll, HubDelete, Goto, TypeInv, TypeOK, LoopType
<1>3. ASSUME \/ \E c \in Conns : StreamStep(c)
             \/ \E p \in Players : PlayerStep(p)
             \/ SelectQuestions \/ Expire \/ UNCHANGED vars
      PROVE  loop'[o] = loop[o] \/ loop'[o] = "lobby"
  BY <1>3, ExpireOnly DEF StreamStep, StreamLookup, StreamCount, StreamCreate,
     StreamSubscribe, StreamStart, Disconnect, PlayerStep, SubmitAnswer,
     Forfeit, MarkForfeited, SelectQuestions, vars, loopVars, TypeInv,
     TypeOK, LoopType
<1>4. ~Crash
  BY DEF Crash
<1> QED
  BY <1>1, <1>2, <1>3, <1>4 DEF Next

LEMMA EarlyExitStep ==
  ASSUME TypeInv, TickInv, [Next]_vars, NEW o \in Rooms,
         ~Faults, loop[o] = "tick", loop'[o] = "close"
  PROVE  Cardinality(Waiting(o) \ submitted[round[o]])
           <= Cardinality(submitted[round[o]] \ Waiting(o))
<1>1. TickCompare(o)
  BY OnlyTicksCompare
<1>2. round[o] \in Rounds
  BY ConstantsAssumption
  DEF TypeInv, TypeOK, LoopType, RoundInv, NeedsRound, InRound, Rounds
<1>3. IsFiniteSet(submitted[round[o]])
  BY <1>2, ConstantsAssumption, FS_Subset DEF TypeInv, TypeOK, RedisType
<1>4. Cardinality(submitted[round[o]]) >= seen[o]
  BY <1>1 DEF TickCompare, Goto, TypeInv, TypeOK, LoopType
<1>5. Cardinality(Waiting(o)) <= seen[o] /\ seen[o] \in Nat
  BY DEF TickInv, TypeInv, TypeOK, LoopType
<1>6. IsFiniteSet(Waiting(o))
  BY WaitingFinite
<1>7. Cardinality(submitted[round[o]]) >= Cardinality(Waiting(o))
  BY <1>3, <1>4, <1>5, <1>6, FS_CardinalityType
<1> QED
  BY <1>3, <1>6, <1>7, SurplusCovers

\* A round cut short by a tick leaves no more of the players it waited for
\* without a submission than there are submissions of others: the tick counts
\* the active players before the submissions, and between its two reads
\* nobody starts to wait (quiz.go:160-183).
THEOREM EarlyExitWaits == Spec => EarlyExitWaitsForAsked
<1>1. Init => TypeInv /\ HubInv /\ AudienceInv /\ TickInv
  BY TypeInit, HubInit, AudienceInit, TickInit
<1>2. TypeInv /\ HubInv /\ AudienceInv /\ TickInv /\ [Next]_vars
        => (TypeInv /\ HubInv /\ AudienceInv /\ TickInv)'
  BY TypeStep, HubStep, AudienceStep, TickStep
<1>3. TypeInv /\ TickInv /\ [Next]_vars =>
        [\A o \in Rooms :
           ~Faults /\ loop[o] = "tick" /\ loop'[o] = "close" =>
             Cardinality(Waiting(o) \ submitted[round[o]])
               <= Cardinality(submitted[round[o]] \ Waiting(o))]_vars
  BY EarlyExitStep
<1> QED
  BY <1>1, <1>2, <1>3, PTL DEF Spec, EarlyExitWaitsForAsked

----------------------------------------------------------------------------
(* GameRoom implements RoomContract.  That rounds come in order rests on   *)
(* what a later loop finds in Redis: the closed rounds are the first ones, *)
(* and a loop that got to a round has closed those before it or found them *)
(* closed, as long as no mark has expired.                                 *)

PastClose == {"publish", "remaining", "after", "afterOne", "soleAfter", "result"}

Unlapsed == \A r \in Rounds : lapses[r] = 0

OrderInv ==
  ~Faults /\ Unlapsed =>
    /\ \A q \in closed, p \in Rounds : p < q => p \in closed
    /\ \A o \in Rooms :
         /\ loop[o] = "none" => round[o] = 1
         /\ loop[o] \in InMatch => \A q \in Rounds : q < round[o] => q \in closed
         /\ loop[o] \in PastClose => round[o] \in closed
         /\ loop[o] = "publish" => \A q \in closed : q <= round[o]

LEMMA OrderStep ==
  TypeInv /\ HubInv /\ OrderInv /\ [Next]_vars => OrderInv'
<1> SUFFICES ASSUME TypeInv, HubInv, OrderInv, [Next]_vars
             PROVE  OrderInv'
  OBVIOUS
<1>u. Unlapsed' => Unlapsed /\ lapses' = lapses
  <2>1. lapses' = lapses \/ \E r \in Rounds : ExpireMark(r)
    BY DEF Next, LoopStep, LobbyOver, CheckActive, NameSole, PopQuestion,
       AskQuestion, TickCount, TickCompare, TimerExpires, CloseRound,
       PublishCompleted, CheckRemaining, AfterRound, AfterRoundOne,
       NameSoleAfter, RoundResult, MatchEnd, UpdateRatings, SaveHistory,
       CloseAll, HubDelete, LoopOnly, StreamStep, StreamLookup, StreamCount,
       StreamCreate, StreamSubscribe, StreamStart, Disconnect, PlayerStep,
       SubmitAnswer, Forfeit, MarkForfeited, SelectQuestions, Crash, Expire,
       ExpireList, ExpireSubmitted, vars, budgetVars
  <2>2. ASSUME NEW r \in Rounds, ExpireMark(r)
        PROVE  ~Unlapsed'
    <3>1. lapses'[r] = lapses[r] + 1 /\ lapses[r] \in Nat
      BY <2>2 DEF ExpireMark, TypeInv, TypeOK, BudgetType
    <3> QED BY <3>1 DEF Unlapsed, Rounds
  <2> QED BY <2>1, <2>2 DEF Unlapsed, Rounds
<1> SUFFICES ASSUME ~Faults, Unlapsed, Unlapsed', lapses' = lapses
             PROVE  OrderInv'
  BY <1>u DEF OrderInv
<1> USE DEF OrderInv
<1>0. OneLoopAtATime
  BY OwnersAreOne DEF HubInv
<1>r. /\ closed \subseteq Rounds /\ Rounds \subseteq Nat
      /\ \A o \in Rooms : round[o] \in Nat
  BY ConstantsAssumption DEF TypeInv, TypeOK, LoopType, RedisType, Rounds
<1>1. ASSUME NEW o \in Rooms, CloseRound(o)
      PROVE  OrderInv'
  <2>1. /\ loop[o] = "close" /\ loop'[o] \in {"after", "publish"}
        /\ loop'[o] = "publish" => round[o] \notin closed
        /\ closed' = closed \cup {round[o]} /\ round' = round
        /\ \A q \in Rooms \ {o} : loop'[q] = loop[q] /\ loop[q] \notin InMatch
    BY <1>0, <1>1 DEF CloseRound, Goto, OneLoopAtATime, Running, InMatch,
       InRound, TypeInv, TypeOK, LoopType
  <2>2. round[o] \in Rounds /\ \A q \in Rounds : q < round[o] => q \in closed
    BY <2>1, <1>r, ConstantsAssumption
    DEF InMatch, InRound, TypeInv, TypeOK, LoopType, RoundInv, NeedsRound, Rounds
  <2>3. \A q \in closed', p \in Rounds : p < q => p \in closed'
    BY <2>1, <2>2
  \* A closed round above this one would have this one closed too.
  <2>4. loop'[o] = "publish" => \A q \in closed' : q <= round[o]
    BY <2>1, <2>2, <1>r
  <2>5. \A q \in Rooms \ {o} : loop'[q] \notin InMatch \cup PastClose
    BY <2>1 DEF PastClose, InMatch, InRound
  <2> QED
    BY <2>1, <2>2, <2>3, <2>4, <2>5 DEF InMatch, InRound
<1>2. ASSUME NEW o \in Rooms, RoundResult(o)
      PROVE  OrderInv'
  <2>1. /\ loop[o] = "result" /\ closed' = closed
        /\ \A q \in Rooms \ {o} : loop'[q] = loop[q] /\ round'[q] = round[q]
        /\ \/ loop'[o] = "final" /\ round'[o] = round[o]
           \/ loop'[o] = "check" /\ round'[o] = round[o] + 1
    BY <1>2 DEF RoundResult, LoopOnly, redisVars, Goto, TypeInv, TypeOK, LoopType
  <2>2. round[o] \in closed /\ \A q \in Rounds : q < round[o] => q \in closed
    BY <2>1 DEF InMatch, PastClose
  <2>3. \A q \in Rounds : q < round[o] + 1 => q \in closed
    BY <2>2, <1>r
  <2> QED
    BY <2>1, <2>2, <2>3 DEF PastClose, InMatch, InRound
<1>3. ASSUME NEW o \in Rooms, LoopStep(o), ~CloseRound(o), ~RoundResult(o)
      PROVE  OrderInv'
  <2>1. /\ closed' = closed /\ \A q \in Rooms \ {o} : round'[q] = round[q]
        /\ loop'[o] \in InMatch => round'[o] = round[o] /\ loop[o] \in InMatch
        /\ loop'[o] \in PastClose => loop[o] \in PastClose
        /\ loop'[o] \notin {"publish", "none"}
        /\ \A q \in Rooms \ {o} : loop'[q] = loop[q]
    BY <1>3 DEF LoopStep, LobbyOver, CheckActive, NameSole, PopQuestion,
       AskQuestion, TickCount, TickCompare, TimerExpires, PublishCompleted,
       CheckRemaining, AfterRound, AfterRoundOne, NameSoleAfter, MatchEnd,
       UpdateRatings, SaveHistory, CloseAll, HubDelete, Goto, LoopOnly,
       redisVars, PastClose, InMatch, InRound, TypeInv, TypeOK, LoopType
  <2>2. PastClose \subseteq InMatch
    BY DEF PastClose, InMatch, InRound
  <2> QED
    BY <2>1, <2>2
<1>4. ASSUME NEW c \in Conns, StreamStep(c)
      PROVE  OrderInv'
  <2>1. /\ closed' = closed /\ round' = round
        /\ \A o \in Rooms : loop'[o] = loop[o]
                              \/ (loop[o] = "none" /\ loop'[o] = "lobby")
    BY <1>4 DEF StreamStep, StreamLookup, StreamCount, StreamCreate,
       StreamSubscribe, StreamStart, Disconnect, loopVars, redisVars,
       TypeInv, TypeOK, LoopType
  <2>2. \A o \in Rooms : round[o] = 1 => \A q \in Rounds : ~(q < round[o])
    BY DEF Rounds
  <2> QED
    BY <2>1, <2>2 DEF PastClose
<1>5. ASSUME \/ \E p \in Players : PlayerStep(p)
             \/ SelectQuestions \/ Expire
             \/ UNCHANGED vars
      PROVE  OrderInv'
  <2>1. UNCHANGED <<loop, round, closed>>
    <3>1. ASSUME NEW r \in Rounds, ExpireMark(r)
          PROVE  FALSE
      BY <3>1 DEF ExpireMark, Unlapsed, TypeInv, TypeOK, BudgetType
    <3> QED
      BY <1>5, <3>1 DEF PlayerStep, SubmitAnswer, Forfeit, MarkForfeited,
         SelectQuestions, Expire, ExpireList, ExpireSubmitted, vars, loopVars,
         redisVars
  <2> QED
    BY <2>1
<1>6. ASSUME Crash
      PROVE  OrderInv'
  BY <1>6 DEF Crash, redisVars, InMatch, InRound, PastClose
<1> QED
  BY <1>1, <1>2, <1>3, <1>4, <1>5, <1>6 DEF Next

LEMMA OrderInit == Init => OrderInv
BY DEF Init, OrderInv, InMatch, InRound, PastClose

Run == [o \in {q \in Rooms : loop[q] \in Running} |-> Phase(loop[o])]

LEMMA RunAlone ==
  ASSUME OneLoopAtATime, NEW o \in Rooms, loop[o] \in Running
  PROVE  Run = [q \in {o} |-> Phase(loop[o])]
<1>1. {q \in Rooms : loop[q] \in Running} = {o}
  BY DEF OneLoopAtATime
<1> QED
  BY <1>1 DEF Run

LEMMA RunStays ==
  ASSUME \A o \in Rooms : loop'[o] = loop[o]
  PROVE  Run' = Run
<1>1. {q \in Rooms : loop[q] \in Running}' = {q \in Rooms : loop[q] \in Running}
  BY DEF Rooms, Running, InMatch, InRound, Finishing
<1>2. \A o \in Rooms : Phase(loop[o])' = Phase(loop[o])
  BY DEF Phase, InMatch, InRound
<1> QED
  BY <1>1, <1>2 DEF Run

LEMMA ContractInit == Init => Contract!Init
BY DEF Init, Contract!Init, Running, InMatch, InRound, Finishing

\* A step of a running loop before its last, and what becomes of its phase.
LEMMA RunMoves ==
  ASSUME TypeInv, HubInv, HubInv', NEW o \in Rooms, LoopStep(o), loop[o] # "delete"
  PROVE  /\ Run = [q \in {o} |-> Phase(loop[o])]
         /\ Run' = [q \in {o} |-> Phase(loop'[o])]
<1>1. loop[o] \in Running /\ loop'[o] \in Running
  BY LoopMoves
<1>2. OneLoopAtATime /\ OneLoopAtATime'
  BY OwnersAreOne DEF HubInv, LoopOwnsHub, OneLoopAtATime
<1>3. Run = [q \in {o} |-> Phase(loop[o])]
  BY <1>1, <1>2, RunAlone
<1>4. {q \in Rooms : loop[q] \in Running}' = {o}
  BY <1>1, <1>2 DEF OneLoopAtATime, Rooms, Running, InMatch, InRound, Finishing
<1>5. Run' = [q \in {o} |-> Phase(loop'[o])]
  BY <1>4 DEF Run, Phase, InMatch, InRound
<1> QED
  BY <1>3, <1>5

LEMMA ContractStep ==
  ASSUME TypeInv, HubInv, HubInv', CompletedInv, FinishedInv, OrderInv, [Next]_vars
  PROVE  Contract!Next
           \/ UNCHANGED <<Run, selections, lapses, completed, finished, rated, saved>>
<1> DEFINE Stutter ==
      UNCHANGED <<Run, selections, lapses, completed, finished, rated, saved>>
<1>t. /\ completed \in [Rounds -> Nat] /\ lapses \in [Rounds -> Nat]
      /\ finished \in Nat /\ selections \in Nat
  BY ConstantsAssumption DEF TypeInv, TypeOK, OutType, BudgetType
<1>1. ASSUME NEW o \in Rooms, PublishCompleted(o)
      PROVE  Contract!Next \/ Stutter
  <2>1. LoopStep(o) /\ loop[o] = "publish" /\ loop'[o] = "remaining"
    BY <1>1 DEF LoopStep, PublishCompleted, Goto, TypeInv, TypeOK, LoopType
  <2>2. Run = [q \in {o} |-> "playing"] /\ Run' = [q \in {o} |-> "playing"]
    BY <2>1, RunMoves DEF Phase, InMatch, InRound
  <2>3. UNCHANGED <<selections, lapses, finished, rated, saved>>
    BY <1>1 DEF PublishCompleted, budgetVars
  <2>4. CASE completed' = completed
    BY <2>2, <2>3, <2>4
  <2>5. CASE completed' = [completed EXCEPT ![round[o]] = @ + 1]
    <3>1. round[o] \in Rounds
      BY <2>1, ConstantsAssumption
      DEF TypeInv, TypeOK, LoopType, RoundInv, NeedsRound, InRound, Rounds
    <3>2. completed[round[o]] <= lapses[round[o]]
      <4>1. completed[round[o]] + Due(round[o]) <= lapses[round[o]] + Mark(round[o])
        BY <3>1 DEF CompletedInv
      <4>2. Due(round[o]) = 1 /\ Mark(round[o]) \in {0, 1}
        BY <2>1 DEF Due, Mark
      <4> QED BY <1>t, <3>1, <4>1, <4>2
    <3>3. ASSUME ~Faults, Unlapsed, NEW q \in Rounds, completed[q] > 0
          PROVE  q < round[o]
      <4>1. q \in closed
        BY <1>t, <3>3 DEF CompletedInv, Due, Mark, Unlapsed
      <4>2. q <= round[o]
        BY <4>1, <3>3, <2>1 DEF OrderInv
      <4>3. q # round[o] /\ q \in Nat /\ round[o] \in Nat
        BY <1>t, <3>1, <3>2, <3>3, ConstantsAssumption DEF Rounds, Unlapsed
      <4> QED BY <4>2, <4>3
    <3>4. Contract!Publish(o, round[o])
      BY <2>2, <2>3, <2>5, <3>2, <3>3
      DEF Contract!Publish, Contract!Playing, Run, Unlapsed
    <3> QED
      BY <3>1, <3>4 DEF Contract!Next
  <2> QED
    BY <1>1, <2>4, <2>5 DEF PublishCompleted
<1>2. ASSUME NEW o \in Rooms, CheckRemaining(o)
      PROVE  Contract!Next \/ Stutter
  <2>1. LoopStep(o) /\ loop[o] = "remaining" /\ loop'[o] = "after"
    BY <1>2 DEF LoopStep, CheckRemaining, Goto, TypeInv, TypeOK, LoopType
  <2>2. Run = [q \in {o} |-> "playing"] /\ Run' = [q \in {o} |-> "playing"]
    BY <2>1, RunMoves DEF Phase, InMatch, InRound
  <2>3. UNCHANGED <<selections, lapses, completed, rated, saved>>
    BY <1>2 DEF CheckRemaining, budgetVars
  <2>4. CASE finished' = finished
    BY <2>2, <2>3, <2>4
  <2>5. CASE finished' = finished + 1
    <3>1. ~Faults => finished < selections
      BY <2>1 DEF FinishedInv, Pending, InRound
    <3>2. Contract!Finish(o)
      BY <2>2, <2>3, <2>5, <3>1 DEF Contract!Finish, Contract!Playing, Run
    <3> QED
      BY <3>2 DEF Contract!Next
  <2> QED
    BY <1>2, <2>4, <2>5 DEF CheckRemaining
<1>3. ASSUME NEW o \in Rooms, UpdateRatings(o)
      PROVE  Contract!Next
  <2>1. LoopStep(o) /\ loop[o] = "rate" /\ loop'[o] = "save"
    BY <1>3 DEF LoopStep, UpdateRatings, Goto, TypeInv, TypeOK, LoopType
  <2>2. Run = [q \in {o} |-> "playing"] /\ Run' = [q \in {o} |-> "rated"]
    BY <2>1, RunMoves DEF Phase, InMatch, InRound
  <2>3. UNCHANGED <<selections, lapses, completed, finished, saved>> /\ rated' = rated + 1
    BY <1>3 DEF UpdateRatings, budgetVars
  <2>4. Contract!Rate(o)
    BY <2>2, <2>3 DEF Contract!Rate, Contract!Playing, Run
  <2> QED
    BY <2>4 DEF Contract!Next
<1>4. ASSUME NEW o \in Rooms, SaveHistory(o)
      PROVE  Contract!Next
  <2>1. LoopStep(o) /\ loop[o] = "save" /\ loop'[o] = "linger"
    BY <1>4 DEF LoopStep, SaveHistory, Goto, TypeInv, TypeOK, LoopType
  <2>2. Run = [q \in {o} |-> "rated"] /\ Run' = [q \in {o} |-> "over"]
    BY <2>1, RunMoves DEF Phase, InMatch, InRound
  <2>3. /\ UNCHANGED <<selections, lapses, completed, finished, rated>>
        /\ saved' = saved + 1 \/ (Faults /\ saved' = saved)
    BY <1>4 DEF SaveHistory, budgetVars
  <2>4. Contract!Save(o)
    BY <2>2, <2>3 DEF Contract!Save, Run
  <2> QED
    BY <2>4 DEF Contract!Next
<1>5. ASSUME NEW o \in Rooms, HubDelete(o)
      PROVE  Contract!Next
  <2>1. loop[o] = "delete" /\ loop'[o] = "done"
        /\ \A q \in Rooms \ {o} : loop'[q] = loop[q]
    BY <1>5 DEF HubDelete, Goto, TypeInv, TypeOK, LoopType
  <2>2. OneLoopAtATime
    BY OwnersAreOne DEF HubInv
  <2>3. DOMAIN Run = {o}
    BY <2>1, <2>2 DEF Run, OneLoopAtATime, Running, Finishing
  <2>4. DOMAIN Run' = {}
    BY <2>1, <2>2 DEF Run, OneLoopAtATime, Running, Finishing, InMatch, InRound, Rooms
  <2>5. UNCHANGED <<selections, lapses, completed, finished, rated, saved>>
    BY <1>5 DEF HubDelete, outVars, budgetVars
  <2>6. Contract!Cease
    BY <2>3, <2>4, <2>5 DEF Contract!Cease, Contract!resultVars, Run
  <2> QED
    BY <2>6 DEF Contract!Next
<1>6. ASSUME NEW o \in Rooms, LoopStep(o), ~PublishCompleted(o),
             ~CheckRemaining(o), ~UpdateRatings(o), ~SaveHistory(o), ~HubDelete(o)
      PROVE  Contract!Next \/ Stutter
  <2>1. /\ loop[o] # "delete"
        /\ UNCHANGED <<selections, lapses, completed, finished, rated, saved>>
        /\ \/ Phase(loop'[o]) = Phase(loop[o])
           \/ Phase(loop[o]) = "playing" /\ Phase(loop'[o]) = "over"
    BY <1>6 DEF LoopStep, LobbyOver, CheckActive, NameSole, PopQuestion,
       AskQuestion, TickCount, TickCompare, TimerExpires, CloseRound,
       AfterRound, AfterRoundOne, NameSoleAfter, RoundResult, MatchEnd,
       CloseAll, Goto, LoopOnly, outVars, budgetVars, Phase, InMatch, InRound,
       TypeInv, TypeOK, LoopType
  <2>2. /\ Run = [q \in {o} |-> Phase(loop[o])]
        /\ Run' = [q \in {o} |-> Phase(loop'[o])]
    BY <1>6, <2>1, RunMoves
  <2>3. CASE Phase(loop'[o]) = Phase(loop[o])
    BY <2>1, <2>2, <2>3
  <2>4. CASE Phase(loop[o]) = "playing" /\ Phase(loop'[o]) = "over"
    <3>1. Contract!GiveUp(o)
      BY <2>1, <2>2, <2>4
      DEF Contract!GiveUp, Contract!Playing, Contract!resultVars, Run
    <3> QED
      BY <3>1 DEF Contract!Next
  <2> QED
    BY <2>1, <2>3, <2>4
<1>7. ASSUME NEW c \in Conns, StreamStart(c), loop[ref[c]] = "none"
      PROVE  Contract!Next
  <2>1. /\ ref[c] \in Rooms /\ hub = ref[c]
        /\ loop' = [loop EXCEPT ![ref[c]] = "lobby"]
        /\ UNCHANGED <<selections, lapses, completed, finished, rated, saved>>
    BY <1>7 DEF StreamStart, HubInv, StartersHoldHub, outVars, budgetVars
  <2>2. \A q \in Rooms : loop[q] \notin Running
    BY <2>1, <1>7 DEF HubInv, LoopOwnsHub, Running, InMatch, InRound, Finishing
  <2>3. DOMAIN Run = {}
    BY <2>2 DEF Run
  <2>4. loop'[ref[c]] = "lobby" /\ \A q \in Rooms \ {ref[c]} : loop'[q] = loop[q]
    BY <2>1 DEF TypeInv, TypeOK, LoopType
  <2>5. {q \in Rooms : loop[q] \in Running}' = {ref[c]}
    BY <2>1, <2>2, <2>4 DEF Rooms, Running, InMatch, InRound, Finishing
  <2>6. Run' = [q \in {ref[c]} |-> "playing"]
    BY <2>4, <2>5 DEF Run, Phase, InMatch, InRound
  <2>7. \E o \in Rooms : Contract!Begin(o)
    BY <2>1, <2>3, <2>6 DEF Contract!Begin, Contract!resultVars, Run
  <2> QED
    BY <2>7 DEF Contract!Next
<1>8. ASSUME \/ \E c \in Conns : StreamStep(c) /\ ~(StreamStart(c) /\ loop[ref[c]] = "none")
             \/ \E p \in Players : PlayerStep(p)
             \/ ExpireList \/ \E r \in Rounds : ExpireSubmitted(r)
             \/ UNCHANGED vars
      PROVE  Stutter
  <2>1. UNCHANGED <<loop, selections, lapses, completed, finished, rated, saved>>
    BY <1>8 DEF StreamStep, StreamLookup, StreamCount, StreamCreate,
       StreamSubscribe, StreamStart, Disconnect, PlayerStep, SubmitAnswer,
       Forfeit, MarkForfeited, ExpireList, ExpireSubmitted, vars, loopVars,
       outVars, budgetVars
  <2> QED
    BY <2>1, RunStays
<1>9. ASSUME SelectQuestions
      PROVE  Contract!Next
  <2>1. /\ UNCHANGED <<loop, lapses, completed, finished, rated, saved>>
        /\ selections' = selections + 1
    BY <1>9 DEF SelectQuestions, loopVars, outVars
  <2>2. Contract!Store
    BY <2>1, RunStays DEF Contract!Store, Contract!resultVars, Run
  <2> QED
    BY <2>2 DEF Contract!Next
<1>10. ASSUME Crash
       PROVE  Contract!Next \/ Stutter
  <2>1. UNCHANGED <<selections, lapses, completed, finished, rated, saved>>
    BY <1>10 DEF Crash, outVars
  <2>2. {q \in Rooms : loop[q] \in Running}' = {}
    BY <1>10 DEF Crash, Rooms, Running, InMatch, InRound, Finishing
  <2>3. DOMAIN Run' = {}
    BY <2>2 DEF Run
  <2>4. CASE DOMAIN Run # {}
    <3>1. Contract!Cease
      BY <2>1, <2>3, <2>4 DEF Contract!Cease, Contract!resultVars, Run
    <3> QED BY <3>1 DEF Contract!Next
  <2>5. CASE DOMAIN Run = {}
    <3>1. Run' = Run
      BY <2>2, <2>5 DEF Run
    <3> QED BY <2>1, <3>1
  <2> QED
    BY <2>4, <2>5
<1>11. ASSUME NEW r \in Rounds, ExpireMark(r)
       PROVE  Contract!Next
  <2>1. /\ UNCHANGED <<loop, selections, completed, finished, rated, saved>>
        /\ lapses' = [lapses EXCEPT ![r] = @ + 1]
    BY <1>11 DEF ExpireMark, loopVars, outVars
  <2>2. Contract!Lapse(r)
    BY <2>1, RunStays DEF Contract!Lapse, Contract!resultVars, Run
  <2> QED
    BY <2>2 DEF Contract!Next
<1> QED
  BY <1>1, <1>2, <1>3, <1>4, <1>5, <1>6, <1>7, <1>8, <1>9, <1>10, <1>11
  DEF Next, StreamStep, Expire

\* The loops of a room keep the contract with everybody who reads their
\* events and records, for any players, reconnects, forfeits, restarts,
\* deliveries of match.created, expiries and faults (quiz_handler.go:445-565,
\* quiz.go:187-228).
THEOREM ContractKept == Spec => ContractSpec
<1>1. Init => /\ TypeInv /\ HubInv /\ CompletedInv /\ FinishedInv /\ OrderInv
              /\ Contract!Init
  BY TypeInit, HubInit, CompletedInit, FinishedInit, OrderInit, ContractInit
<1>2. TypeInv /\ HubInv /\ CompletedInv /\ FinishedInv /\ OrderInv /\ [Next]_vars
        => (TypeInv /\ HubInv /\ CompletedInv /\ FinishedInv /\ OrderInv)'
  BY TypeStep, HubStep, CompletedStep, FinishedStep, OrderStep
<1>3. TypeInv /\ HubInv /\ HubInv' /\ CompletedInv /\ FinishedInv /\ OrderInv
        /\ [Next]_vars => [Contract!Next]_(Contract!contractVars)
  BY ContractStep DEF Contract!contractVars, Contract!resultVars, Run
<1> QED
  BY <1>1, <1>2, <1>3, PTL DEF Spec, ContractSpec, Contract!Spec

\* The history never counts a match that the ratings do not, whatever loops are
\* started, lost or fail: proved of the contract, and so true of the room
\* (quiz_handler.go:531-551, 813-958).
THEOREM RecordsOrdered == Spec => []Contract!RecordsInOrder
<1> USE DEF Contract!RecordsInOrder
<1>1. Contract!Init => Contract!RecordsInOrder
  BY DEF Contract!Init
<1>2. TypeInv /\ TypeInv' /\ Contract!RecordsInOrder
        /\ [Contract!Next]_(Contract!contractVars) => Contract!RecordsInOrder'
  <2> SUFFICES ASSUME TypeInv, TypeInv', Contract!RecordsInOrder,
                      [Contract!Next]_(Contract!contractVars)
               PROVE  Contract!RecordsInOrder'
    OBVIOUS
  <2>0. /\ rated \in Nat /\ saved \in Nat /\ rated' \in Nat /\ saved' \in Nat
        /\ Run = [o \in DOMAIN Run |-> Run[o]]
    BY DEF TypeInv, TypeOK, OutType, Run
  <2>r. /\ \A o, q \in DOMAIN Run : o = q
        /\ saved <= rated
        /\ \A o \in DOMAIN Run : Run[o] = "rated" => saved < rated
    BY DEF Run
  <2>p. ASSUME /\ \A o, q \in DOMAIN Run' : o = q
               /\ saved' <= rated'
               /\ \A o \in DOMAIN Run' : Run'[o] = "rated" => saved' < rated'
        PROVE  Contract!RecordsInOrder'
    BY <2>p DEF Run
  <2>1. ASSUME NEW o \in Rooms, Contract!Begin(o)
        PROVE  Contract!RecordsInOrder'
    <3>1. Run' = [q \in {o} |-> "playing"] /\ UNCHANGED <<rated, saved>>
      BY <2>1 DEF Contract!Begin, Contract!resultVars, Run
    <3> QED
      BY <2>r, <2>p, <3>1
  <2>2. ASSUME NEW o \in Rooms, Contract!Rate(o)
        PROVE  Contract!RecordsInOrder'
    <3>1. /\ Run' = [Run EXCEPT ![o] = "rated"]
          /\ rated' = rated + 1 /\ saved' = saved
      BY <2>2 DEF Contract!Rate, Run
    <3> QED
      BY <2>0, <2>r, <2>p, <3>1
  <2>3. ASSUME NEW o \in Rooms, Contract!Save(o)
        PROVE  Contract!RecordsInOrder'
    <3>1. /\ o \in DOMAIN Run /\ Run[o] = "rated"
          /\ Run' = [Run EXCEPT ![o] = "over"]
          /\ rated' = rated /\ saved' \in {saved, saved + 1}
      BY <2>3 DEF Contract!Save, Run
    <3> QED
      BY <2>0, <2>r, <2>p, <3>1
  <2>4. ASSUME NEW o \in Rooms, Contract!GiveUp(o)
        PROVE  Contract!RecordsInOrder'
    <3>1. /\ Run' = [Run EXCEPT ![o] = "over"]
          /\ UNCHANGED <<rated, saved>>
      BY <2>4 DEF Contract!GiveUp, Contract!resultVars, Run
    <3> QED
      BY <2>0, <2>r, <2>p, <3>1
  <2>5. ASSUME Contract!Cease
        PROVE  Contract!RecordsInOrder'
    <3>1. DOMAIN Run' = {} /\ UNCHANGED <<rated, saved>>
      BY <2>5 DEF Contract!Cease, Contract!resultVars, Run
    <3> QED
      BY <2>r, <2>p, <3>1
  <2>6. CASE \/ \E o \in Rooms : \/ Contract!Finish(o)
                                \/ \E r \in Rounds : Contract!Publish(o, r)
             \/ Contract!Store \/ \E r \in Rounds : Contract!Lapse(r)
             \/ UNCHANGED Contract!contractVars
    <3>1. Run' = Run /\ UNCHANGED <<rated, saved>>
      BY <2>6 DEF Contract!Finish, Contract!Publish, Contract!Store, Contract!Lapse,
         Contract!contractVars, Contract!resultVars, Run
    <3> QED
      BY <2>r, <2>p, <3>1
  <2> QED
    BY <2>1, <2>2, <2>3, <2>4, <2>5, <2>6 DEF Contract!Next
<1> QED
  BY <1>1, <1>2, TypeInvariant, ContractKept, PTL DEF ContractSpec, Contract!Spec
=============================================================================
