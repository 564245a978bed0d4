------------------------ MODULE MatchAftermathProofs ------------------------
(***************************************************************************)
(* Proofs about MatchAftermath, for any users, matches and faults.         *)
(***************************************************************************)
EXTENDS MatchAftermath, SequenceTheorems, FiniteSetTheorems, TLAPS

----------------------------------------------------------------------------
(* Counting the documents of a player.                                     *)

LEMMA RoomSets ==
  /\ \A r \in Rooms : r \in Nat
  /\ IsFiniteSet(Rooms)
  /\ \A X \in SUBSET Rooms : IsFiniteSet(X) /\ Cardinality(X) \in Nat
  /\ \A X, Y \in SUBSET Rooms : X \subseteq Y => Cardinality(X) <= Cardinality(Y)
<1>1. LastRoom \in Nat
  BY AftermathAssumption
<1>2. IsFiniteSet(Rooms)
  BY <1>1, FS_Interval DEF Rooms
<1>3. \A X \in SUBSET Rooms : IsFiniteSet(X) /\ Cardinality(X) \in Nat
  BY <1>2, FS_Subset, FS_CardinalityType
<1>4. ASSUME NEW X \in SUBSET Rooms, NEW Y \in SUBSET Rooms, X \subseteq Y
      PROVE  Cardinality(X) <= Cardinality(Y)
  BY <1>3, <1>4, FS_Subset
<1> QED BY <1>1, <1>2, <1>3, <1>4 DEF Rooms

\* Those with fewer than k newer ones are k at most: the number of newer ones
\* tells them apart.
LEMMA NewestAreFew ==
  ASSUME NEW X \in SUBSET Rooms, NEW k \in Nat
  PROVE  Cardinality({r \in X : Cardinality({s \in X : s > r}) < k}) <= k
<1> DEFINE After(r) == {s \in X : s > r}
           D == {r \in X : Cardinality(After(r)) < k}
           f == [r \in D |-> Cardinality(After(r))]
<1>1. \A r \in X : After(r) \in SUBSET Rooms /\ Cardinality(After(r)) \in Nat
  BY RoomSets
<1>2. f \in [D -> 0..(k - 1)]
  BY <1>1
<1>3. ASSUME NEW r \in D, NEW t \in D, r < t
      PROVE  f[r] # f[t]
  <2>1. r \in Nat /\ t \in Nat /\ \A s \in X : s \in Nat
    BY RoomSets
  <2>a. r \in X /\ t \in X
    OBVIOUS
  <2>b. t \in After(r)
    BY <1>3, <2>1, <2>a
  <2>c. \A s \in X : s > t => s > r /\ s # t
    BY <1>3, <2>1
  <2>d. After(t) \subseteq After(r) \ {t}
    BY <2>c
  <2>2. t \in After(r) /\ After(t) \subseteq After(r) \ {t} /\ After(r) \ {t} \in SUBSET Rooms
    BY <2>b, <2>d
  <2>3. Cardinality(After(r) \ {t}) = Cardinality(After(r)) - 1
    BY <1>1, <2>2, RoomSets, FS_RemoveElement
  <2>4. Cardinality(After(t)) <= Cardinality(After(r)) - 1
    BY <1>1, <2>2, <2>3, RoomSets
  <2> QED BY <1>1, <2>4
<1>4. \A r, t \in D : f[r] = f[t] => r = t
  <2> SUFFICES ASSUME NEW r \in D, NEW t \in D, r # t PROVE f[r] # f[t]
    OBVIOUS
  <2>1. r < t \/ t < r
    BY RoomSets
  <2> QED BY <1>3, <2>1
<1> HIDE DEF f
<1>5. f \in Injection(D, 0..(k - 1))
  BY <1>2, <1>4 DEF Injection, IsInjective
<1>6. IsFiniteSet(0..(k - 1)) /\ Cardinality(0..(k - 1)) = k
  BY FS_Interval
<1>7. Cardinality(D) <= Cardinality(0..(k - 1))
  BY <1>5, <1>6, FS_Injection
<1> QED BY <1>6, <1>7

----------------------------------------------------------------------------
(* The invariant.                                                          *)

\* Only the loop past saveMatchHistory has a document.
SavedInv == \A r \in saved : loop[r] \in {"trim", "delete", "over"}

\* What a loop has found for deletion is old.
DoomedInv == \A r \in Rooms : \A s \in doomed[r] : IsOld(s)

\* What the worker knows of the player in hand.
JobInv ==
  /\ job.at \in Midway => job.user \in referred
  /\ job.at = "mark" => job.user \notin flagged
  /\ job.at \in {"token", "send"} => job.user \in flagged \ missed

\* What remains of a player's documents when those saved since, or found by,
\* a trim are left out.
TrimmedInv ==
  \A u \in Users : Cardinality(HistoryOf(u) \ owed[u]) <= Keep

Inv ==
  /\ TypeOK /\ SavedInv /\ DoomedInv /\ JobInv
  /\ OnePushPerFlag /\ TrimmedInv /\ DeletedIsOld

LEMMA DocumentSets ==
  ASSUME TypeOK
  PROVE  /\ history \in SUBSET Rooms /\ saved \in SUBSET Rooms
         /\ \A u \in Users : HistoryOf(u) \in SUBSET Rooms /\ owed[u] \in SUBSET Rooms
         /\ \A u, r : Newer(u, r) \in SUBSET Rooms
BY DEF TypeOK, HistoryOf, Newer

\* The property, from the part that is inductive.
LEMMA Bounded ==
  ASSUME TypeOK, TrimmedInv
  PROVE  HistoryBounded
<1> SUFFICES ASSUME NEW u \in Users
             PROVE  Cardinality(HistoryOf(u)) <= Keep + Cardinality(owed[u])
  BY DEF HistoryBounded
<1> DEFINE H == HistoryOf(u)
           O == owed[u]
<1>1. H \in SUBSET Rooms /\ O \in SUBSET Rooms /\ Keep \in Nat
  BY DocumentSets, AftermathAssumption
<1>2. Cardinality(H \ O) <= Keep
  BY DEF TrimmedInv
<1> HIDE DEF H, O
<1>3. /\ H \ O \in SUBSET Rooms /\ H \cap O \in SUBSET Rooms
      /\ (H \ O) \cup (H \cap O) = H /\ (H \ O) \cap (H \cap O) = {}
  BY <1>1
<1>4. Cardinality(H) = Cardinality(H \ O) + Cardinality(H \cap O) - Cardinality({})
  BY <1>3, RoomSets, FS_Union
<1>5. Cardinality(H \cap O) <= Cardinality(O)
  BY <1>1, <1>3, RoomSets
<1>6. /\ Cardinality(H) \in Nat /\ Cardinality(O) \in Nat
      /\ Cardinality(H \ O) \in Nat /\ Cardinality(H \cap O) \in Nat
      /\ Cardinality({}) = 0
  BY <1>1, <1>3, RoomSets, FS_EmptySet
<1>7. Cardinality(H) <= Keep + Cardinality(O)
  BY <1>1, <1>2, <1>4, <1>5, <1>6
<1> QED BY <1>7 DEF H, O

LEMMA Initially == Init => Inv
<1> SUFFICES ASSUME Init PROVE Inv
  OBVIOUS
<1>1. TypeOK
  BY AftermathAssumption, EmptySeq DEF Init, TypeOK, Jobs, Idle
<1>2. SavedInv /\ DoomedInv /\ JobInv /\ OnePushPerFlag /\ DeletedIsOld
  BY DEF Init, SavedInv, DoomedInv, JobInv, OnePushPerFlag, DeletedIsOld, Idle, Midway
<1>3. \A u \in Users : HistoryOf(u) \ owed[u] = {}
  BY DEF Init, HistoryOf
<1>4. TrimmedInv
  BY <1>3, FS_EmptySet, AftermathAssumption DEF TrimmedInv
<1> QED BY <1>1, <1>2, <1>4 DEF Inv

----------------------------------------------------------------------------
(* quiz-service.                                                           *)

LEMMA FaultType ==
  ASSUME TypeOK, Works \/ Fails
  PROVE  faults' \in 0..MaxFaults
BY AftermathAssumption DEF TypeOK, Works, Fails

LEMMA LoopToType ==
  ASSUME TypeOK, NEW r \in Rooms, NEW place \in {"playing", "scores", "save", "trim", "delete", "over"},
         LoopTo(r, place)
  PROVE  /\ loop' \in [Rooms -> {"playing", "scores", "save", "trim", "delete", "over"}]
         /\ loop'[r] = place /\ \A s \in Rooms : s # r => loop'[s] = loop[s]
BY DEF TypeOK, LoopTo

\* The worker's side is left alone.
LEMMA LoopKeepsWorker ==
  ASSUME Inv, UNCHANGED <<workerVars, userVars>>
  PROVE  /\ JobInv' /\ OnePushPerFlag' /\ job' \in Jobs
         /\ token' \subseteq Users /\ referred' \subseteq Referees
         /\ flagged' \subseteq referred' /\ missed' \subseteq flagged'
         /\ sends' \in [Users -> Nat]
BY DEF Inv, TypeOK, JobInv, OnePushPerFlag, workerVars, userVars

\* Old documents stay old, whatever is saved.
LEMMA OldStaysOld ==
  ASSUME TypeOK, TypeOK', saved \subseteq saved',
         \A r \in saved : standing'[r] = standing[r],
         NEW d \in saved, IsOld(d)
  PROVE  IsOld(d)'
<1>1. PICK u \in standing[d] :
        Cardinality({s \in saved : s > d /\ u \in standing[s]}) >= Keep
  BY DEF IsOld
<1> DEFINE A == {s \in saved : s > d /\ u \in standing[s]}
           B == {s \in saved' : s > d /\ u \in standing'[s]}
<1>2. A \in SUBSET Rooms /\ B \in SUBSET Rooms /\ A \subseteq B
  BY DEF TypeOK
<1>3. Cardinality(A) >= Keep /\ Keep \in Nat
  BY <1>1, AftermathAssumption
<1> HIDE DEF A, B
<1>4. Cardinality(A) <= Cardinality(B) /\ Cardinality(A) \in Nat /\ Cardinality(B) \in Nat
  BY <1>2, RoomSets
<1>5. Cardinality(B) >= Keep
  BY <1>3, <1>4
<1> QED BY <1>1, <1>5 DEF B, IsOld

\* A step that adds documents of players to whom they are owed, and deletes
\* none.
LEMMA GrowingHistory ==
  ASSUME Inv, TypeOK', history \subseteq history', saved \subseteq saved',
         saved' \ saved = history' \ history,
         \A r \in saved : standing'[r] = standing[r],
         \A u \in Users : owed[u] \subseteq owed'[u],
         \A u \in Users, r \in history' \ history : u \in standing'[r] => r \in owed'[u],
         \A r \in Rooms : doomed'[r] \subseteq doomed[r]
  PROVE  TrimmedInv' /\ DeletedIsOld' /\ DoomedInv'
<1>1. TypeOK /\ Keep \in Nat
  BY AftermathAssumption DEF Inv
<1>2. ASSUME NEW u \in Users PROVE Cardinality(HistoryOf(u)' \ owed'[u]) <= Keep
  <2>1. HistoryOf(u)' \ owed'[u] \subseteq HistoryOf(u) \ owed[u]
    <3> SUFFICES ASSUME NEW r \in history', u \in standing'[r], r \notin owed'[u]
                 PROVE  r \in history /\ u \in standing[r] /\ r \notin owed[u]
      BY DEF HistoryOf
    <3>1. r \in history
      OBVIOUS
    <3>2. r \in saved
      BY <1>1, <3>1 DEF TypeOK
    <3> QED BY <3>1, <3>2
  <2>2. /\ HistoryOf(u)' \ owed'[u] \in SUBSET Rooms /\ HistoryOf(u) \ owed[u] \in SUBSET Rooms
        /\ Cardinality(HistoryOf(u) \ owed[u]) <= Keep
    BY <1>1, <2>1, DocumentSets DEF Inv, TrimmedInv
  <2>3. /\ Cardinality(HistoryOf(u)' \ owed'[u]) <= Cardinality(HistoryOf(u) \ owed[u])
        /\ Cardinality(HistoryOf(u)' \ owed'[u]) \in Nat
        /\ Cardinality(HistoryOf(u) \ owed[u]) \in Nat
    BY <2>1, <2>2, RoomSets
  <2> QED BY <1>1, <2>2, <2>3
<1>3. ASSUME NEW r \in saved' \ history' PROVE IsOld(r)'
  <2>1. r \in saved /\ IsOld(r)
    BY <1>3 DEF Inv, DeletedIsOld
  <2> QED BY <1>1, <2>1, OldStaysOld
<1>4. ASSUME NEW r \in Rooms, NEW s \in doomed'[r] PROVE IsOld(s)'
  <2>1. s \in saved /\ IsOld(s)
    BY <1>1, <1>4 DEF Inv, DoomedInv, TypeOK
  <2> QED BY <1>1, <2>1, OldStaysOld
<1> QED BY <1>2, <1>3, <1>4 DEF TrimmedInv, DeletedIsOld, DoomedInv

LEMMA FinishStep ==
  ASSUME Inv, NEW r \in Rooms, Finish(r)
  PROVE  Inv'
<1>1. /\ TypeOK /\ loop[r] = "playing" /\ LoopTo(r, "scores")
      /\ UNCHANGED <<standing, todo, doomed, history, saved, owed, faults>>
      /\ UNCHANGED <<workerVars, userVars>>
      /\ queue' = Append(queue, r) \/ queue' = queue
  BY DEF Finish, Inv
<1>2. queue' \in Seq(Rooms)
  <2>1. queue \in Seq(Rooms)
    BY <1>1 DEF TypeOK
  <2>2. Append(queue, r) \in Seq(Rooms)
    BY <2>1, AppendProperties
  <2> QED BY <1>1, <2>1, <2>2
<1>3. TypeOK'
  BY <1>1, <1>2, LoopToType, LoopKeepsWorker DEF TypeOK
<1>4. SavedInv'
  BY <1>1, LoopToType DEF Inv, SavedInv, TypeOK
<1>5. TrimmedInv' /\ DeletedIsOld' /\ DoomedInv'
  BY <1>1, <1>3, GrowingHistory
<1> QED BY <1>1, <1>3, <1>4, <1>5, LoopKeepsWorker DEF Inv

LEMMA ScoresStep ==
  ASSUME Inv, NEW r \in Rooms, Scores(r)
  PROVE  Inv'
<1>1. /\ TypeOK /\ loop[r] = "scores" /\ (Works \/ Fails)
      /\ UNCHANGED <<todo, doomed, history, saved, owed, queue>>
      /\ UNCHANGED <<workerVars, userVars>>
      /\ LoopTo(r, "save") \/ LoopTo(r, "over")
      /\ \E S \in SUBSET PlayersOf[r] : standing' = [standing EXCEPT ![r] = S]
         \/ standing' = standing
  BY DEF Scores, Inv
<1>2. r \notin saved
  BY <1>1 DEF Inv, SavedInv
<1>3. /\ standing' \in [Rooms -> SUBSET Users]
      /\ \A s \in Rooms : s # r => standing'[s] = standing[s]
      /\ \A s \in Rooms : standing'[s] \cup todo'[s] \subseteq PlayersOf[s]
  <2>1. /\ standing \in [Rooms -> SUBSET Users] /\ PlayersOf[r] \subseteq Users
        /\ \A s \in Rooms : standing[s] \cup todo[s] \subseteq PlayersOf[s]
        /\ todo' = todo
    BY <1>1, AftermathAssumption DEF TypeOK
  <2>2. CASE standing' = standing
    BY <2>1, <2>2
  <2>3. CASE \E S \in SUBSET PlayersOf[r] : standing' = [standing EXCEPT ![r] = S]
    <3>1. PICK S \in SUBSET PlayersOf[r] : standing' = [standing EXCEPT ![r] = S]
      BY <2>3
    <3>2. /\ standing'[r] = S /\ \A s \in Rooms : s # r => standing'[s] = standing[s]
          /\ standing' \in [Rooms -> SUBSET Users]
      BY <2>1, <3>1
    <3> QED BY <2>1, <3>1, <3>2
  <2> QED BY <1>1, <2>2, <2>3
<1>4. /\ loop' \in [Rooms -> {"playing", "scores", "save", "trim", "delete", "over"}]
      /\ \A s \in Rooms : s # r => loop'[s] = loop[s]
  BY <1>1, LoopToType
<1>5. TypeOK'
  BY <1>1, <1>3, <1>4, FaultType, LoopKeepsWorker DEF TypeOK
<1>6. SavedInv'
  BY <1>1, <1>2, <1>4 DEF Inv, SavedInv, TypeOK
<1>7. TrimmedInv' /\ DeletedIsOld' /\ DoomedInv'
  BY <1>1, <1>2, <1>3, <1>5, GrowingHistory DEF TypeOK
<1> QED BY <1>1, <1>5, <1>6, <1>7, LoopKeepsWorker DEF Inv

LEMMA SaveStep ==
  ASSUME Inv, NEW r \in Rooms, Save(r)
  PROVE  Inv'
<1>1. /\ TypeOK /\ loop[r] = "save" /\ LoopTo(r, "trim") /\ (Works \/ Fails)
      /\ todo' = [todo EXCEPT ![r] = standing[r]]
      /\ UNCHANGED <<standing, doomed, queue>> /\ UNCHANGED <<workerVars, userVars>>
  BY DEF Save, Inv
<1>2. /\ r \notin saved /\ r \notin history
      /\ history \subseteq saved /\ saved \subseteq Rooms
      /\ owed \in [Users -> SUBSET saved]
  BY <1>1 DEF Inv, SavedInv, TypeOK
<1>3. /\ history \subseteq history' /\ saved \subseteq saved' /\ saved' \subseteq saved \cup {r}
      /\ saved' \ saved = history' \ history /\ history' \subseteq saved'
      /\ owed' \in [Users -> SUBSET saved']
      /\ \A u \in Users : owed[u] \subseteq owed'[u]
      /\ \A u \in Users, s \in history' \ history : u \in standing'[s] => s \in owed'[u]
  <2>1. CASE UNCHANGED <<history, saved, owed>>
    BY <1>2, <2>1
  <2>2. CASE /\ history' = history \cup {r} /\ saved' = saved \cup {r}
             /\ owed' = [u \in Users |-> IF u \in standing[r] THEN owed[u] \cup {r}
                                                              ELSE owed[u]]
    BY <1>1, <1>2, <2>2
  <2> QED BY <2>1, <2>2 DEF Save
<1>4. /\ todo' \in [Rooms -> SUBSET Users]
      /\ \A s \in Rooms : standing'[s] \cup todo'[s] \subseteq PlayersOf[s]
  BY <1>1 DEF TypeOK
<1>5. /\ loop' \in [Rooms -> {"playing", "scores", "save", "trim", "delete", "over"}]
      /\ loop'[r] = "trim" /\ \A s \in Rooms : s # r => loop'[s] = loop[s]
  BY <1>1, LoopToType
<1>6. TypeOK'
  BY <1>1, <1>2, <1>3, <1>4, <1>5, FaultType, LoopKeepsWorker DEF TypeOK
<1>7. SavedInv'
  BY <1>2, <1>3, <1>5 DEF Inv, SavedInv
<1>8. TrimmedInv' /\ DeletedIsOld' /\ DoomedInv'
  BY <1>1, <1>3, <1>6, GrowingHistory
<1> QED BY <1>1, <1>6, <1>7, <1>8, LoopKeepsWorker DEF Inv

\* What is found for deletion leaves the Keep newest, and is old.
LEMMA OlderProperties ==
  ASSUME TypeOK, NEW u \in Users
  PROVE  /\ Older(u) \in SUBSET saved
         /\ Cardinality(HistoryOf(u) \ Older(u)) <= Keep
         /\ \A s \in Older(u) : IsOld(s)
<1> DEFINE X == HistoryOf(u)
           D == {s \in X : Cardinality({t \in X : t > s}) < Keep}
<1>1. X \in SUBSET Rooms /\ Keep \in Nat /\ Older(u) \in SUBSET saved
  BY DocumentSets, AftermathAssumption DEF Older, HistoryOf, TypeOK
<1>2. /\ \A s \in X : Cardinality({t \in X : t > s}) \in Nat
      /\ \A s : Newer(u, s) = {t \in X : t > s}
  BY <1>1, RoomSets DEF Newer
<1>3. X \ Older(u) = D
  <2>1. Older(u) = {s \in X : Cardinality({t \in X : t > s}) >= Keep}
    BY <1>2 DEF Older
  <2> QED BY <1>1, <1>2, <2>1
<1>4. Cardinality(D) <= Keep
  BY <1>1, NewestAreFew
<1>5. ASSUME NEW s \in Older(u) PROVE IsOld(s)
  <2> DEFINE B == {t \in saved : t > s /\ u \in standing[t]}
  <2>1. /\ u \in standing[s] /\ Cardinality(Newer(u, s)) >= Keep
        /\ Newer(u, s) \subseteq B /\ B \in SUBSET Rooms /\ Newer(u, s) \in SUBSET Rooms
    BY DEF Older, HistoryOf, Newer, TypeOK
  <2>2. /\ Cardinality(Newer(u, s)) <= Cardinality(B)
        /\ Cardinality(Newer(u, s)) \in Nat /\ Cardinality(B) \in Nat
    BY <2>1, RoomSets
  <2>3. Cardinality(B) >= Keep
    BY <1>1, <2>1, <2>2
  <2> QED BY <2>1, <2>3 DEF IsOld
<1> QED BY <1>1, <1>3, <1>4, <1>5

LEMMA TrimFindStep ==
  ASSUME Inv, NEW r \in Rooms, NEW u \in Users, TrimFind(r, u)
  PROVE  Inv'
<1>1. /\ TypeOK /\ loop[r] = "trim" /\ (Works \/ Fails)
      /\ todo' = [todo EXCEPT ![r] = @ \ {u}]
      /\ UNCHANGED <<standing, history, saved, queue>> /\ UNCHANGED <<workerVars, userVars>>
  BY DEF TrimFind, Inv
<1>2. \/ /\ LoopTo(r, "trim") \/ LoopTo(r, "delete")
         /\ doomed' = [doomed EXCEPT ![r] = Older(u)]
         /\ owed' = [owed EXCEPT ![u] = Older(u)]
      \/ UNCHANGED <<loop, doomed, owed>>
  BY DEF TrimFind
<1>3. /\ loop' \in [Rooms -> {"playing", "scores", "save", "trim", "delete", "over"}]
      /\ loop'[r] \in {"trim", "delete"} /\ \A s \in Rooms : s # r => loop'[s] = loop[s]
  BY <1>1, <1>2, LoopToType DEF TypeOK
<1>4. /\ todo' \in [Rooms -> SUBSET Users]
      /\ \A s \in Rooms : standing'[s] \cup todo'[s] \subseteq PlayersOf[s]
  BY <1>1 DEF TypeOK
<1>5. /\ doomed' \in [Rooms -> SUBSET saved] /\ owed' \in [Users -> SUBSET saved]
      /\ \A s \in Rooms : doomed'[s] = doomed[s] \/ doomed'[s] = Older(u)
      /\ \A v \in Users : owed'[v] = owed[v] \/ (v = u /\ owed'[v] = Older(u))
  <2>1. /\ doomed \in [Rooms -> SUBSET saved] /\ owed \in [Users -> SUBSET saved]
        /\ Older(u) \in SUBSET saved
    BY <1>1, OlderProperties DEF TypeOK
  <2>2. saved' = saved
    BY <1>1
  <2> QED BY <1>2, <2>1, <2>2
<1>6. TypeOK'
  BY <1>1, <1>3, <1>4, <1>5, FaultType, LoopKeepsWorker DEF TypeOK
<1>7. SavedInv'
  BY <1>1, <1>3 DEF Inv, SavedInv, TypeOK
<1>8. \A s : IsOld(s)' <=> IsOld(s)
  BY <1>1 DEF IsOld
<1>9. DoomedInv' /\ DeletedIsOld'
  BY <1>1, <1>5, <1>8, OlderProperties DEF Inv, DoomedInv, DeletedIsOld
<1>10. ASSUME NEW v \in Users PROVE Cardinality(HistoryOf(v)' \ owed'[v]) <= Keep
  <2>1. HistoryOf(v)' = HistoryOf(v)
    BY <1>1 DEF HistoryOf
  <2>2. Cardinality(HistoryOf(v) \ owed'[v]) <= Keep
    BY <1>1, <1>5, OlderProperties DEF Inv, TrimmedInv
  <2> QED BY <2>1, <2>2
<1>11. TrimmedInv'
  BY <1>10 DEF TrimmedInv
<1> QED BY <1>1, <1>6, <1>7, <1>9, <1>11, LoopKeepsWorker DEF Inv

LEMMA TrimDeleteStep ==
  ASSUME Inv, NEW r \in Rooms, TrimDelete(r)
  PROVE  Inv'
<1>1. /\ TypeOK /\ loop[r] = "delete" /\ LoopTo(r, "trim") /\ (Works \/ Fails)
      /\ doomed' = [doomed EXCEPT ![r] = {}]
      /\ UNCHANGED <<standing, todo, saved, queue>> /\ UNCHANGED <<workerVars, userVars>>
      /\ Keep \in Nat
  BY AftermathAssumption DEF TrimDelete, Inv
<1>2. /\ history' \subseteq history /\ history \ history' \subseteq doomed[r]
      /\ owed' \in [Users -> SUBSET saved]
      /\ \A v \in Users : (history' \ owed'[v]) \subseteq (history \ owed[v])
  BY <1>1 DEF TrimDelete, TypeOK
<1>3. /\ loop' \in [Rooms -> {"playing", "scores", "save", "trim", "delete", "over"}]
      /\ loop'[r] = "trim" /\ \A s \in Rooms : s # r => loop'[s] = loop[s]
  BY <1>1, LoopToType
<1>4. /\ doomed' \in [Rooms -> SUBSET saved]
      /\ \A s \in Rooms : doomed'[s] \subseteq doomed[s]
  BY <1>1 DEF TypeOK
<1>5. TypeOK'
  BY <1>1, <1>2, <1>3, <1>4, FaultType, LoopKeepsWorker DEF TypeOK
<1>6. SavedInv'
  BY <1>1, <1>3 DEF Inv, SavedInv, TypeOK
<1>7. \A s : IsOld(s)' <=> IsOld(s)
  BY <1>1 DEF IsOld
<1>8. DoomedInv'
  BY <1>4, <1>7 DEF Inv, DoomedInv
<1>9. DeletedIsOld'
  <2> SUFFICES ASSUME NEW s \in saved \ history' PROVE IsOld(s)
    BY <1>1, <1>7 DEF DeletedIsOld
  <2>1. CASE s \in history
    BY <1>2, <2>1 DEF Inv, DoomedInv
  <2>2. CASE s \notin history
    BY <2>2 DEF Inv, DeletedIsOld
  <2> QED BY <2>1, <2>2
<1>10. ASSUME NEW v \in Users PROVE Cardinality(HistoryOf(v)' \ owed'[v]) <= Keep
  <2>1. /\ HistoryOf(v)' \ owed'[v] \subseteq HistoryOf(v) \ owed[v]
        /\ HistoryOf(v)' \ owed'[v] \in SUBSET Rooms /\ HistoryOf(v) \ owed[v] \in SUBSET Rooms
    BY <1>1, <1>2, DocumentSets DEF HistoryOf, TypeOK
  <2>2. /\ Cardinality(HistoryOf(v)' \ owed'[v]) <= Cardinality(HistoryOf(v) \ owed[v])
        /\ Cardinality(HistoryOf(v)' \ owed'[v]) \in Nat
        /\ Cardinality(HistoryOf(v) \ owed[v]) \in Nat
    BY <2>1, RoomSets
  <2> QED BY <1>1, <2>2 DEF Inv, TrimmedInv
<1>11. TrimmedInv'
  BY <1>10 DEF TrimmedInv
<1> QED BY <1>1, <1>5, <1>6, <1>8, <1>9, <1>11, LoopKeepsWorker DEF Inv

LEMMA QuizRestartStep ==
  ASSUME Inv, QuizRestart
  PROVE  Inv'
<1>1. /\ TypeOK /\ (Works \/ Fails)
      /\ loop' = [r \in Rooms |-> IF loop[r] = "playing" THEN "playing" ELSE "over"]
      /\ doomed' = [r \in Rooms |-> {}]
      /\ UNCHANGED <<standing, todo, history, saved, owed, queue>>
      /\ UNCHANGED <<workerVars, userVars>>
  BY DEF QuizRestart, Inv
<1>2. TypeOK'
  BY <1>1, FaultType, LoopKeepsWorker DEF TypeOK
<1>3. SavedInv'
  BY <1>1 DEF Inv, SavedInv, TypeOK
<1>4. TrimmedInv' /\ DeletedIsOld' /\ DoomedInv'
  BY <1>1, <1>2, GrowingHistory
<1> QED BY <1>1, <1>2, <1>3, <1>4, LoopKeepsWorker DEF Inv

----------------------------------------------------------------------------
(* The notification worker and the users.                                  *)

LEMMA JobFields ==
  ASSUME TypeOK
  PROVE  /\ job.at \in {"idle", "find", "players"} \cup Midway
         /\ job.at = "idle" <=> job = Idle
         /\ job.at # "idle" => job.room \in Rooms
         /\ job.at = "players" =>
              job = [at |-> "players", room |-> job.room, left |-> job.left]
         /\ job.at \in Midway =>
              /\ job = [at |-> job.at, room |-> job.room, left |-> job.left, user |-> job.user]
              /\ job.user \in Referees
         /\ job.at \in {"players"} \cup Midway => job.left \in SUBSET Users
BY DEF TypeOK, Jobs, Idle, Midway

\* The side of quiz-service is left alone.
LEMMA WorkerKeepsLoops ==
  ASSUME Inv, UNCHANGED loopVars
  PROVE  /\ SavedInv' /\ DoomedInv' /\ TrimmedInv' /\ DeletedIsOld'
BY DEF Inv, SavedInv, DoomedInv, TrimmedInv, DeletedIsOld, IsOld, HistoryOf, loopVars

LEMMA WorkerType ==
  ASSUME Inv, UNCHANGED loopVars, UNCHANGED userVars, Works \/ Fails,
         job' \in Jobs, queue' \in Seq(Rooms), flagged' \subseteq referred,
         missed' \subseteq flagged', sends' \in [Users -> Nat],
         JobInv', OnePushPerFlag'
  PROVE  Inv'
<1>1. TypeOK'
  BY FaultType DEF Inv, TypeOK, loopVars, userVars
<1> QED BY <1>1, WorkerKeepsLoops DEF Inv

LEMMA RequeueType ==
  ASSUME TypeOK, job.at # "idle", Requeue
  PROVE  job' \in Jobs /\ queue' \in Seq(Rooms) /\ job'.at = "idle" /\ job' = Idle
<1>1. job.room \in Rooms /\ queue \in Seq(Rooms)
  BY JobFields DEF TypeOK
<1> QED BY <1>1 DEF Requeue, Jobs, Idle

\* Steps that flag nobody and send nothing, between players.
LEMMA BetweenPlayers ==
  ASSUME Inv, job.at \in {"idle", "find", "players"},
         job'.at \in {"idle", "find", "players"},
         UNCHANGED <<flagged, sends, missed>>
  PROVE  JobInv' /\ OnePushPerFlag'
BY DEF Inv, JobInv, OnePushPerFlag, Midway

LEMMA DeliverStep ==
  ASSUME Inv, Deliver
  PROVE  Inv'
<1>1. /\ TypeOK /\ job.at = "idle" /\ queue \in Seq(Rooms) /\ queue # << >>
      /\ job' = [at |-> "find", room |-> Head(queue)] /\ queue' = Tail(queue)
      /\ UNCHANGED <<flagged, sends, missed>> /\ Works
      /\ UNCHANGED loopVars /\ UNCHANGED userVars
  BY DEF Deliver, WorkerOnly, Inv, TypeOK, Works
<1>2. Head(queue) \in Rooms /\ queue' \in Seq(Rooms)
  BY <1>1, HeadTailProperties
<1>3. job' \in Jobs /\ job'.at = "find"
  BY <1>1, <1>2 DEF Jobs
<1>4. JobInv' /\ OnePushPerFlag'
  BY <1>1, <1>3, BetweenPlayers
<1> QED BY <1>1, <1>2, <1>3, <1>4, WorkerType DEF TypeOK

LEMMA FindStep ==
  ASSUME Inv, Find
  PROVE  Inv'
<1>1. /\ TypeOK /\ job.at = "find" /\ (Works \/ Fails)
      /\ UNCHANGED <<flagged, sends, missed>>
      /\ UNCHANGED loopVars /\ UNCHANGED userVars
      /\ \/ Requeue
         \/ /\ job' = [at |-> "players", room |-> job.room, left |-> standing[job.room]]
            /\ queue' = queue
  BY DEF Find, WorkerOnly, Inv
<1>2. job' \in Jobs /\ queue' \in Seq(Rooms) /\ job'.at \in {"idle", "players"}
  <2>1. CASE Requeue
    BY <1>1, <2>1, RequeueType
  <2>2. CASE ~Requeue
    <3>1. job.room \in Rooms
      BY <1>1, JobFields
    <3>2. standing[job.room] \in SUBSET Users /\ queue \in Seq(Rooms)
      BY <1>1, <3>1 DEF TypeOK
    <3> QED BY <1>1, <2>2, <3>1, <3>2 DEF Jobs
  <2> QED BY <2>1, <2>2
<1>3. JobInv' /\ OnePushPerFlag'
  BY <1>1, <1>2, BetweenPlayers
<1> QED BY <1>1, <1>2, <1>3, WorkerType DEF TypeOK

LEMMA LookStep ==
  ASSUME Inv, NEW u \in Users, Look(u)
  PROVE  Inv'
<1>1. /\ TypeOK /\ job.at = "players" /\ u \in job.left /\ (Works \/ Fails)
      /\ UNCHANGED <<queue, flagged, sends, missed>>
      /\ UNCHANGED loopVars /\ UNCHANGED userVars
      /\ job.room \in Rooms /\ job.left \in SUBSET Users
      /\ job = [at |-> "players", room |-> job.room, left |-> job.left]
  BY JobFields DEF Look, WorkerOnly, Inv
<1>2. CASE job' = [job EXCEPT !.left = @ \ {u}]
  <2>1. job' = [at |-> "players", room |-> job.room, left |-> job.left \ {u}]
    BY <1>1, <1>2
  <2>2. job' \in Jobs /\ job'.at = "players"
    BY <1>1, <2>1 DEF Jobs
  <2>3. JobInv' /\ OnePushPerFlag'
    BY <1>1, <2>2, BetweenPlayers
  <2> QED BY <1>1, <2>2, <2>3, WorkerType DEF TypeOK
<1>3. CASE /\ u \in referred \ flagged
           /\ job' = [at |-> "mark", room |-> job.room, left |-> job.left \ {u}, user |-> u]
  <2>1. u \in Referees /\ u \in referred' /\ u \notin flagged'
    BY <1>1, <1>3 DEF TypeOK, userVars
  <2>2. job' \in Jobs /\ job'.at = "mark" /\ job'.user = u
    BY <1>1, <1>3, <2>1 DEF Jobs, Midway
  <2>3. JobInv'
    BY <2>1, <2>2 DEF JobInv
  <2>4. OnePushPerFlag'
    BY <1>1, <2>2 DEF Inv, OnePushPerFlag
  <2> QED BY <1>1, <2>2, <2>3, <2>4, WorkerType DEF TypeOK
<1> QED BY <1>2, <1>3 DEF Look

\* The next place of a player in hand, and back to the others.
LEMMA MidwayTo ==
  ASSUME TypeOK, job.at \in Midway, NEW place \in Midway,
         job' = [job EXCEPT !.at = place]
  PROVE  job' \in Jobs /\ job'.at = place /\ job'.user = job.user
<1>1. /\ job = [at |-> job.at, room |-> job.room, left |-> job.left, user |-> job.user]
      /\ job.room \in Rooms /\ job.left \in SUBSET Users /\ job.user \in Referees
  BY JobFields DEF Midway
<1>2. job' = [at |-> place, room |-> job.room, left |-> job.left, user |-> job.user]
  BY <1>1
<1> QED BY <1>1, <1>2 DEF Jobs

LEMMA ResumeType ==
  ASSUME TypeOK, job.at \in Midway, Resume
  PROVE  job' \in Jobs /\ job'.at = "players"
<1>1. job.room \in Rooms /\ job.left \in SUBSET Users
  BY JobFields DEF Midway
<1> QED BY <1>1 DEF Resume, Jobs

\* The player in hand, and what has been sent.
LEMMA InHand ==
  ASSUME Inv, job.at \in Midway
  PROVE  /\ TypeOK /\ job.user \in Users /\ job.user \in referred
         /\ flagged \subseteq referred /\ missed \subseteq flagged
         /\ sends \in [Users -> Nat] /\ queue \in Seq(Rooms)
         /\ sends[job.user] = 0
         /\ job.at = "mark" => job.user \notin flagged
         /\ job.at \in {"token", "send"} => job.user \in flagged \ missed
         /\ \A u \in Users \ {job.user} :
              sends[u] = IF u \in flagged \ missed THEN 1 ELSE 0
BY JobFields, AftermathAssumption DEF Inv, TypeOK, JobInv, OnePushPerFlag, Midway

LEMMA MarkStep ==
  ASSUME Inv, Mark
  PROVE  Inv'
<1>1. /\ job.at = "mark" /\ job.at \in Midway /\ (Works \/ Fails)
      /\ queue' = queue /\ sends' = sends
      /\ UNCHANGED loopVars /\ UNCHANGED userVars
  BY DEF Mark, WorkerOnly, Midway
<1>2. referred' = referred
  BY <1>1 DEF userVars
<1>3. CASE /\ job' = [job EXCEPT !.at = "token"]
           /\ flagged' = flagged \cup {job.user} /\ missed' = missed
  <2>1. job' \in Jobs /\ job'.at = "token" /\ job'.user = job.user
    BY <1>1, <1>3, InHand, MidwayTo DEF Midway
  <2>2. JobInv'
    BY <1>1, <1>2, <1>3, <2>1, InHand DEF JobInv
  <2>3. OnePushPerFlag'
    BY <1>1, <1>3, <2>1, InHand DEF OnePushPerFlag
  <2>4. flagged' \subseteq referred /\ missed' \subseteq flagged'
    BY <1>1, <1>3, InHand
  <2> QED BY <1>1, <2>1, <2>2, <2>3, <2>4, InHand, WorkerType
<1>4. CASE /\ Resume
           /\ \/ flagged' = flagged \cup {job.user} /\ missed' = missed \cup {job.user}
              \/ flagged' = flagged /\ missed' = missed
  <2>1. job' \in Jobs /\ job'.at = "players"
    BY <1>1, <1>4, InHand, ResumeType
  <2>2. JobInv'
    BY <2>1 DEF JobInv, Midway
  <2>3. OnePushPerFlag'
    BY <1>1, <1>4, <2>1, InHand DEF OnePushPerFlag
  <2>4. flagged' \subseteq referred /\ missed' \subseteq flagged'
    BY <1>1, <1>4, InHand
  <2> QED BY <1>1, <2>1, <2>2, <2>3, <2>4, InHand, WorkerType
<1> QED BY <1>3, <1>4 DEF Mark

LEMMA FindTokenStep ==
  ASSUME Inv, FindToken
  PROVE  Inv'
<1>1. /\ job.at = "token" /\ job.at \in Midway /\ (Works \/ Fails)
      /\ queue' = queue /\ sends' = sends /\ flagged' = flagged
      /\ UNCHANGED loopVars /\ UNCHANGED userVars
  BY DEF FindToken, WorkerOnly, Midway
<1>2. referred' = referred
  BY <1>1 DEF userVars
<1>3. CASE job' = [job EXCEPT !.at = "send"] /\ missed' = missed
  <2>1. job' \in Jobs /\ job'.at = "send" /\ job'.user = job.user
    BY <1>1, <1>3, InHand, MidwayTo DEF Midway
  <2>2. JobInv'
    BY <1>1, <1>2, <1>3, <2>1, InHand DEF JobInv
  <2>3. OnePushPerFlag'
    BY <1>1, <1>3, <2>1, InHand DEF OnePushPerFlag
  <2> QED BY <1>1, <1>3, <2>1, <2>2, <2>3, InHand, WorkerType
<1>4. CASE Resume /\ missed' = missed \cup {job.user}
  <2>1. job' \in Jobs /\ job'.at = "players"
    BY <1>1, <1>4, InHand, ResumeType
  <2>2. JobInv'
    BY <2>1 DEF JobInv, Midway
  <2>3. OnePushPerFlag'
    BY <1>1, <1>4, <2>1, InHand DEF OnePushPerFlag
  <2>4. missed' \subseteq flagged'
    BY <1>1, <1>4, InHand
  <2> QED BY <1>1, <2>1, <2>2, <2>3, <2>4, InHand, WorkerType
<1> QED BY <1>3, <1>4 DEF FindToken

LEMMA SendStep ==
  ASSUME Inv, Send
  PROVE  Inv'
<1>1. /\ job.at = "send" /\ job.at \in Midway /\ (Works \/ Fails) /\ Resume
      /\ queue' = queue /\ flagged' = flagged
      /\ UNCHANGED loopVars /\ UNCHANGED userVars
      /\ \/ sends' = [sends EXCEPT ![job.user] = @ + 1] /\ missed' = missed
         \/ missed' = missed \cup {job.user} /\ sends' = sends
  BY DEF Send, WorkerOnly, Midway
<1>2. job' \in Jobs /\ job'.at = "players"
  BY <1>1, InHand, ResumeType
<1>3. JobInv'
  BY <1>2 DEF JobInv, Midway
<1>4. /\ sends' \in [Users -> Nat] /\ missed' \subseteq flagged'
      /\ \A u \in Users \ {job.user} : sends'[u] = sends[u]
      /\ sends'[job.user] = IF job.user \in missed' THEN 0 ELSE 1
  BY <1>1, InHand
<1>5. OnePushPerFlag'
  BY <1>1, <1>2, <1>4, InHand DEF OnePushPerFlag
<1> QED BY <1>1, <1>2, <1>3, <1>4, <1>5, InHand, WorkerType

LEMMA AckStep ==
  ASSUME Inv, Ack
  PROVE  Inv'
<1>1. /\ TypeOK /\ job.at = "players" /\ job' = Idle /\ Works
      /\ UNCHANGED <<queue, flagged, sends, missed>>
      /\ UNCHANGED loopVars /\ UNCHANGED userVars
  BY DEF Ack, WorkerOnly, Inv, Works
<1>2. job' \in Jobs /\ job'.at = "idle"
  BY <1>1 DEF Jobs, Idle
<1>3. JobInv' /\ OnePushPerFlag'
  BY <1>1, <1>2, BetweenPlayers
<1> QED BY <1>1, <1>2, <1>3, WorkerType DEF TypeOK

LEMMA WorkerRestartStep ==
  ASSUME Inv, WorkerRestart
  PROVE  Inv'
<1>1. /\ TypeOK /\ job # Idle /\ job.at # "idle" /\ (Works \/ Fails) /\ Requeue
      /\ flagged' = flagged /\ sends' = sends
      /\ missed' = IF job.at \in {"token", "send"} THEN missed \cup {job.user} ELSE missed
      /\ UNCHANGED loopVars /\ UNCHANGED userVars
  BY JobFields DEF WorkerRestart, WorkerOnly, Inv
<1>2. job' \in Jobs /\ queue' \in Seq(Rooms) /\ job'.at = "idle"
  BY <1>1, RequeueType
<1>3. JobInv'
  BY <1>2 DEF JobInv, Midway
<1>4. OnePushPerFlag' /\ missed' \subseteq flagged'
  <2>1. CASE job.at \in Midway
    BY <1>1, <1>2, <2>1, InHand DEF OnePushPerFlag, Midway
  <2>2. CASE job.at \notin Midway
    BY <1>1, <1>2, <2>2 DEF Inv, TypeOK, OnePushPerFlag, Midway
  <2> QED BY <2>1, <2>2
<1> QED BY <1>1, <1>2, <1>3, <1>4, WorkerType DEF Inv, TypeOK

LEMMA UserSteps ==
  ASSUME Inv, (\E u \in Users : Register(u)) \/ (\E u \in Referees : Refer(u))
  PROVE  Inv'
<1>1. /\ token' \subseteq Users /\ referred' \subseteq Referees /\ referred \subseteq referred'
      /\ UNCHANGED loopVars /\ UNCHANGED workerVars /\ queue' = queue /\ faults' = faults
  BY AftermathAssumption DEF Inv, TypeOK, Register, Refer, UserOnly
<1>2. job' = job /\ flagged' = flagged /\ missed' = missed /\ sends' = sends
  BY <1>1 DEF workerVars
<1>3. TypeOK'
  BY <1>1, <1>2 DEF Inv, TypeOK, loopVars
<1>4. JobInv' /\ OnePushPerFlag'
  BY <1>1, <1>2 DEF Inv, JobInv, OnePushPerFlag
<1> QED BY <1>1, <1>3, <1>4, WorkerKeepsLoops DEF Inv

LEMMA Inductive == Spec => []Inv
<1>1. Init => Inv
  BY Initially
<1>2. Inv /\ [Next]_vars => Inv'
  <2> SUFFICES ASSUME Inv, [Next]_vars PROVE Inv'
    OBVIOUS
  <2>1. CASE \E r \in Rooms : LoopStep(r)
    BY <2>1, FinishStep, ScoresStep, SaveStep, TrimFindStep, TrimDeleteStep DEF LoopStep
  <2>2. CASE QuizRestart
    BY <2>2, QuizRestartStep
  <2>3. CASE WorkerStep
    BY <2>3, DeliverStep, FindStep, LookStep, MarkStep, FindTokenStep, SendStep, AckStep
    DEF WorkerStep
  <2>4. CASE WorkerRestart
    BY <2>4, WorkerRestartStep
  <2>5. CASE (\E u \in Users : Register(u)) \/ (\E u \in Referees : Refer(u))
    BY <2>5, UserSteps
  <2>6. CASE UNCHANGED vars
    <3>1. UNCHANGED loopVars /\ UNCHANGED workerVars /\ UNCHANGED userVars
      BY <2>6 DEF vars
    <3>2. queue' = queue /\ faults' = faults
      BY <2>6 DEF vars
    <3>3. TypeOK'
      BY <3>1, <3>2, LoopKeepsWorker DEF Inv, TypeOK, loopVars
    <3> QED BY <3>1, <3>3, LoopKeepsWorker, WorkerKeepsLoops DEF Inv
  <2> QED BY <2>1, <2>2, <2>3, <2>4, <2>5, <2>6 DEF Next
<1> QED BY <1>1, <1>2, PTL DEF Spec

----------------------------------------------------------------------------
(* The theorems.                                                           *)

\* The loop, the history and the worker stay within their types: in
\* particular whoever is flagged has been referred (db.go:111-123).
THEOREM TypeCorrect == Spec => []TypeOK
<1>1. Inv => TypeOK
  BY DEF Inv
<1> QED BY <1>1, Inductive, PTL

\* One push for each flag, but for what a failure swallows, over every
\* redelivery and restart (consumer.go:259-291).
THEOREM PushesOnce == Spec => []OnePushPerFlag
<1>1. Inv => OnePushPerFlag
  BY DEF Inv
<1> QED BY <1>1, Inductive, PTL

\* A player's documents are the Keep last ones and those saved since he was
\* last trimmed (quiz_handler.go:858-905).
THEOREM HistoriesBounded == Spec => []HistoryBounded
<1>1. Inv => HistoryBounded
  BY Bounded DEF Inv
<1> QED BY <1>1, Inductive, PTL

\* Only what is older than Keep documents of one of its players is deleted
\* (quiz_handler.go:858-905).
THEOREM OldOnesDeleted == Spec => []DeletedIsOld
<1>1. Inv => DeletedIsOld
  BY DEF Inv
<1> QED BY <1>1, Inductive, PTL
=============================================================================
