---------------------------- MODULE WalletProofs ----------------------------
(***************************************************************************)
(* Proofs about Wallet, for any users, calls, prices, days and bounds.     *)
(***************************************************************************)
EXTENDS Wallet, FiniteSetTheorems, TLAPS

----------------------------------------------------------------------------
(* Types.                                                                  *)

\* A game is free only while the day's games last.
Room == \A g \in Games : at[g] = "free" => read[g].used < Free

LEMMA TypeInit == Init => TypeOK /\ Room
BY WalletAssumption DEF Init, TypeOK, Room, Spots, Days, Calls

LEMMA CallFacts ==
  /\ Games \subseteq Calls /\ Entries \subseteq Calls /\ Pushes \subseteq Calls
  /\ \A g \in Games : g \notin Entries /\ g \notin Pushes
  /\ \A e \in Entries : e \notin Games /\ e \notin Pushes
  /\ \A p \in Pushes : p \notin Games /\ p \notin Entries
BY WalletAssumption DEF Calls

LEMMA CallType ==
  ASSUME TypeOK, NEW c \in Calls, NEW spot \in Spots, CallTo(c, spot)
  PROVE  /\ at' \in [Calls -> Spots] /\ at'[c] = spot
         /\ \A d \in Calls : d # c => at'[d] = at[d]
BY DEF CallTo, TypeOK, Spots

LEMMA FaultType ==
  ASSUME TypeOK, Works \/ Fails
  PROVE  faults' \in 0..MaxFaults
BY WalletAssumption DEF TypeOK, Works, Fails

\* The counters, as a game reads them.
LEMMA ReadType ==
  ASSUME TypeOK, NEW u \in Users
  PROVE  /\ UsedToday(u) \in 0..Free
         /\ [used |-> UsedToday(u), day |-> today] \in [used : 0..Free, day : Days]
BY WalletAssumption DEF TypeOK, UsedToday

LEMMA GameType ==
  ASSUME TypeOK, Room, NEW g \in Games, GameStep(g)
  PROVE  TypeOK' /\ Room'
<1>0. /\ g \in Calls /\ Player[g] \in Users /\ g \notin Entries /\ g \notin Pushes
      /\ {"free", "bonus", "admitted", "counted", "refused"} \subseteq Spots
      /\ Games \subseteq Calls
  BY WalletAssumption DEF Calls, Spots
<1> USE DEF QuotaOnly, quotaVars, entryVars, clientVars
<1>1. CASE QuotaRead(g)
  <2>1. /\ at' \in [Calls -> Spots] /\ at'[g] \in Spots
        /\ \A h \in Calls : h # g => at'[h] = at[h]
    BY <1>0, <1>1, CallType DEF QuotaRead
  <2>2. /\ read' \in [Games -> [used : 0..Free, day : Days]]
        /\ \A h \in Games : h # g => read'[h] = read[h]
    BY <1>0, <1>1, ReadType DEF QuotaRead, TypeOK
  <2>3. at'[g] = "free" => read'[g].used < Free
    BY <1>0, <1>1, CallType DEF QuotaRead, TypeOK
  <2>4. loose' \subseteq Users
    BY <1>0, <1>1 DEF QuotaRead, MidGame, TypeOK
  <2> QED BY <1>0, <1>1, <2>1, <2>2, <2>3, <2>4, FaultType DEF QuotaRead, TypeOK, Room
<1>2. CASE QuotaFree(g)
  <2>1. /\ at' \in [Calls -> Spots] /\ at'[g] = "admitted"
        /\ \A h \in Calls : h # g => at'[h] = at[h]
    BY <1>0, <1>2, CallType DEF QuotaFree
  <2>2. /\ read[g].used \in 0..Free /\ read[g].used < Free /\ read[g].day \in Days
    BY <1>2 DEF QuotaFree, TypeOK, Room
  <2>3. read[g].used + 1 \in 0..Free
    BY <2>2, WalletAssumption
  <2>a. \/ /\ used' = [used EXCEPT ![Player[g]] = read[g].used + 1]
           /\ date' = [date EXCEPT ![Player[g]] = read[g].day]
           /\ played' = [played EXCEPT ![Player[g]][read[g].day] = @ + 1]
           /\ loose' = loose
        \/ UNCHANGED <<used, date, played>> /\ loose' = loose \cup {Player[g]}
    BY <1>2 DEF QuotaFree
  <2>4. /\ used' \in [Users -> 0..Free] /\ date' \in [Users -> Days]
        /\ loose' \subseteq Users
    <3>1. /\ used \in [Users -> 0..Free] /\ date \in [Users -> Days]
          /\ loose \subseteq Users
      BY DEF TypeOK
    <3>2. CASE UNCHANGED <<used, date, played>>
      BY <1>0, <2>a, <2>2, <2>3, <3>1, <3>2
    <3>3. CASE /\ used' = [used EXCEPT ![Player[g]] = read[g].used + 1]
               /\ date' = [date EXCEPT ![Player[g]] = read[g].day]
               /\ loose' = loose
      BY <1>0, <2>2, <2>3, <3>1, <3>3
    <3> QED BY <2>a, <3>2, <3>3
  <2>b. ASSUME NEW day \in Days
        PROVE  [played EXCEPT ![Player[g]][day] = @ + 1] \in [Users -> [Days -> Nat]]
    <3>1. [played[Player[g]] EXCEPT ![day] = @ + 1] \in [Days -> Nat]
      BY <1>0 DEF TypeOK
    <3> QED BY <1>0, <3>1 DEF TypeOK
  <2>5. played' \in [Users -> [Days -> Nat]]
    <3>1. CASE UNCHANGED played
      BY <3>1 DEF TypeOK
    <3>2. CASE played' = [played EXCEPT ![Player[g]][read[g].day] = @ + 1]
      BY <2>b, <2>2, <3>2
    <3> QED BY <2>a, <3>1, <3>2
  <2> QED BY <1>0, <1>2, <2>1, <2>4, <2>5, FaultType DEF QuotaFree, TypeOK, Room
<1>3. CASE QuotaBonus(g)
  <2>1. /\ at' \in [Calls -> Spots] /\ at'[g] = "admitted"
        /\ \A h \in Calls : h # g => at'[h] = at[h]
    BY <1>0, <1>3, CallType DEF QuotaBonus
  <2>2. bonus' \in [Users -> Int] /\ loose' \subseteq Users
    BY <1>0, <1>3 DEF QuotaBonus, TypeOK
  <2> QED BY <1>0, <1>3, <2>1, <2>2, FaultType DEF QuotaBonus, TypeOK, Room
<1>4. CASE Consume(g)
  <2>1. /\ at' \in [Calls -> Spots] /\ at'[g] = "counted"
        /\ \A h \in Calls : h # g => at'[h] = at[h]
    BY <1>0, <1>4, CallType DEF Consume
  <2>2. myBonus' \in [Users -> Int]
    BY <1>0, <1>4 DEF Consume, TypeOK
  <2> QED BY <1>0, <1>4, <2>1, <2>2 DEF Consume, ClientOnly, TypeOK, Room
<1> QED BY <1>1, <1>2, <1>3, <1>4 DEF GameStep

LEMMA EntryType ==
  ASSUME TypeOK, Room, NEW e \in Entries, EntryStep(e)
  PROVE  TypeOK' /\ Room'
<1>0. /\ e \in Calls /\ Entrant[e] \in Users /\ EntryTo[e] \in Tournaments
      /\ e \notin Games /\ Games \subseteq Calls
      /\ Fee[EntryTo[e]] \in Int
      /\ {"coins", "pay", "push", "ok", "refused"} \subseteq Spots
  BY WalletAssumption DEF Calls, Spots
<1>1. at' \in [Calls -> Spots] /\ \A h \in Calls : h # e => at'[h] = at[h]
  BY <1>0, CallType DEF EntryStep, EntryFind, EntryCoins, EntryPay, EntryPush
<1>2. faults' \in 0..MaxFaults
  BY FaultType DEF EntryStep, EntryFind, EntryCoins, EntryPay, EntryPush
<1>3. /\ coins' \in [Users -> Int] /\ paid' \subseteq Entries
      /\ stranded' \subseteq Entries /\ rushed' \subseteq Tournaments
      /\ spree' \subseteq Users
  BY <1>0 DEF EntryStep, EntryFind, EntryCoins, EntryPay, EntryPush, MidPayment,
              TypeOK
<1>4. entered' \in [Tournaments -> SUBSET Entries]
  <2>1. \/ entered' = entered
        \/ entered' = [entered EXCEPT ![EntryTo[e]] = @ \cup {e}]
    BY DEF EntryStep, EntryFind, EntryCoins, EntryPay, EntryPush
  <2> QED BY <1>0, <2>1 DEF TypeOK
<1>5. UNCHANGED <<today, quotaVars, clientVars>>
  BY DEF EntryStep, EntryFind, EntryCoins, EntryPay, EntryPush, EntryOnly
<1> QED BY <1>0, <1>1, <1>2, <1>3, <1>4, <1>5 DEF TypeOK, Room, quotaVars, clientVars

LEMMA ClientType ==
  ASSUME TypeOK, Room,
         \/ \E p \in Pushes : PushStep(p)
         \/ \E u \in Users : Gift(u) \/ Sync(u)
  PROVE  TypeOK' /\ Room'
<1> USE CallFacts DEF ClientOnly, entryVars, clientVars
<1>1. ASSUME NEW p \in Pushes, PushSend(p)
      PROVE  TypeOK' /\ Room'
  <2>0. p \in Calls /\ Pusher[p] \in Users /\ "sent" \in Spots
    BY WalletAssumption DEF Spots
  <2>1. at' \in [Calls -> Spots] /\ \A h \in Calls : h # p => at'[h] = at[h]
    BY <1>1, <2>0, CallType DEF PushSend
  <2>2. sent' \in [Pushes -> [coins : Int, bonus : Int]]
    BY <1>1, <2>0 DEF PushSend, TypeOK
  <2> QED BY <1>1, <2>1, <2>2 DEF PushSend, TypeOK, Room
<1>2. ASSUME NEW p \in Pushes, PushApply(p)
      PROVE  TypeOK' /\ Room'
  <2>0. p \in Calls /\ Pusher[p] \in Users /\ "ok" \in Spots
    BY WalletAssumption DEF Spots
  <2>1. at' \in [Calls -> Spots] /\ \A h \in Calls : h # p => at'[h] = at[h]
    BY <1>2, <2>0, CallType DEF PushApply
  <2>2. /\ coins' \in [Users -> Int] /\ bonus' \in [Users -> Int]
        /\ loose' \subseteq Users
    BY <1>2, <2>0 DEF PushApply, MidGame, TypeOK
  <2> QED BY <1>2, <2>1, <2>2, FaultType DEF PushApply, TypeOK, Room
<1>3. ASSUME NEW u \in Users, Gift(u)
      PROVE  TypeOK' /\ Room'
  BY <1>3, WalletAssumption DEF Gift, TypeOK, Room
<1>4. ASSUME NEW u \in Users, Sync(u)
      PROVE  TypeOK' /\ Room'
  <2>1. myCoins' \in [Users -> Int] /\ myBonus' \in [Users -> Int]
    BY <1>4 DEF Sync, TypeOK
  <2> QED BY <1>4, <2>1, FaultType DEF Sync, TypeOK, Room
<1> QED BY <1>1, <1>2, <1>3, <1>4 DEF PushStep

LEMMA TypeStep ==
  ASSUME TypeOK, Room, [Next]_vars
  PROVE  TypeOK' /\ Room'
<1>1. CASE Midnight
  BY <1>1, WalletAssumption
     DEF Midnight, TypeOK, Room, Days, quotaVars, entryVars, clientVars
<1>2. CASE Restart
  <2>1. /\ at' \in [Calls -> Spots]
        /\ \A c \in Calls : at'[c] = "free" => at[c] = "free"
    BY <1>2 DEF Restart, TypeOK, Spots
  <2> QED BY <1>2, <2>1, CallFacts, FaultType
             DEF Restart, TypeOK, Room, quotaVars, clientVars
<1>3. CASE UNCHANGED vars
  BY <1>3 DEF vars, TypeOK, Room, quotaVars, entryVars, clientVars
<1> QED BY <1>1, <1>2, <1>3, GameType, EntryType, ClientType DEF Next

----------------------------------------------------------------------------
(* The daily quota.                                                        *)

Mid(g) == at[g] \in {"free", "bonus"}

\* The counters of u add up, on the server and at the client.
Ledger(u) ==
  /\ date[u] <= today /\ bonus[u] >= 0 /\ myBonus[u] >= 0
  /\ played[u][date[u]] = used[u]
  /\ \A d \in Days : played[u][d] <= Free /\ (d > date[u] => played[u][d] = 0)

\* What g has read is still so.
Fresh(g) ==
  /\ at[g] = "free" =>
       /\ date[Player[g]] <= read[g].day /\ read[g].day <= today
       /\ read[g].used =
            IF date[Player[g]] = read[g].day THEN used[Player[g]] ELSE 0
  /\ at[g] = "bonus" => bonus[Player[g]] > 0

Quota ==
  /\ \A u \in Users \ loose : Ledger(u)
  /\ \A g \in Games : Player[g] \notin loose => Fresh(g)
  /\ \A g, h \in Games :
       Player[g] = Player[h] /\ Player[g] \notin loose /\ Mid(g) /\ Mid(h) => g = h
  /\ \A p \in Pushes : Pusher[p] \notin loose => sent[p].bonus >= 0

LEMMA NatOrder == \A m, n \in Nat : m <= n /\ m # n => n > m
OBVIOUS

LEMMA QuotaInit == Init => Quota
BY WalletAssumption, CallFacts
   DEF Init, Quota, Ledger, Fresh, Mid, Days

LEMMA QuotaGame ==
  ASSUME TypeOK, Room, Quota, NEW g \in Games, GameStep(g)
  PROVE  Quota'
<1>0. /\ g \in Calls /\ Player[g] \in Users /\ Games \subseteq Calls
      /\ loose \subseteq Users /\ Free \in Nat /\ Free > 0
      /\ \A u \in Users : Player[g] = u \/ Player[g] # u
  BY WalletAssumption DEF Calls, TypeOK
<1>a. TypeOK /\ LastDay \in Nat /\ Days = 0..LastDay /\ Free \in Nat
  BY WalletAssumption DEF Days
<1>b. Days \subseteq Nat /\ 0..Free \subseteq Nat
  BY <1>a
<1>t. /\ today \in Nat /\ used \in [Users -> Nat] /\ date \in [Users -> Days]
      /\ bonus \in [Users -> Int] /\ myBonus \in [Users -> Int]
      /\ played \in [Users -> [Days -> Nat]] /\ Days \subseteq Nat /\ today \in Days
      /\ \A h \in Games : read[h].used \in Nat /\ read[h].day \in Days
      /\ read \in [Games -> [used : 0..Free, day : Days]]
  <2>1. \A h \in Games : read[h].used \in 0..Free /\ read[h].day \in Days
    BY <1>a DEF TypeOK
  <2>2. /\ today \in Days /\ used \in [Users -> 0..Free]
        /\ date \in [Users -> Days]
        /\ bonus \in [Users -> Int] /\ myBonus \in [Users -> Int]
        /\ played \in [Users -> [Days -> Nat]]
        /\ read \in [Games -> [used : 0..Free, day : Days]]
    BY <1>a DEF TypeOK
  <2> QED BY <1>b, <2>1, <2>2
<1>s. \A h \in Calls : h # g => at'[h] = at[h]
  BY <1>0 DEF GameStep, QuotaRead, QuotaFree, QuotaBonus, Consume, CallTo, TypeOK
<1> USE <1>0, <1>t, <1>s DEF QuotaOnly, entryVars, clientVars, CallTo
<1>1. CASE QuotaRead(g)
  <2>1. UNCHANGED <<today, used, date, bonus, played, myBonus, sent>>
    BY <1>1 DEF QuotaRead
  <2>2. /\ loose \subseteq loose'
        /\ \A h \in Games : h # g => read'[h] = read[h]
    BY <1>1 DEF QuotaRead
  <2>3. Mid(g)' /\ Player[g] \notin loose' =>
          \A h \in Games : Player[h] = Player[g] => ~Mid(h)
    BY <1>1 DEF QuotaRead, Mid, MidGame, TypeOK
  <2>4. at'[g] \in {"free", "bonus"} => read'[g] = [used |-> UsedToday(Player[g]), day |-> today]
    BY <1>1 DEF QuotaRead, TypeOK
  <2>5. at'[g] = "bonus" => bonus[Player[g]] > 0
    BY <1>1 DEF QuotaRead, TypeOK
  <2>6. \A u \in Users \ loose' : Ledger(u)'
    BY <2>1, <2>2 DEF Quota, Ledger
  <2>7. ASSUME NEW h \in Games, Player[h] \notin loose'
        PROVE  Fresh(h)'
    <3>1. CASE h = g
      <4>1. Player[g] \in Users \ loose
        BY <2>2, <2>7, <3>1
      <4>2. date[Player[g]] <= today
        BY <4>1 DEF Quota, Ledger
      <4> QED BY <2>1, <2>4, <2>5, <3>1, <4>2 DEF Fresh, UsedToday
    <3>2. CASE h # g
      BY <2>1, <2>2, <2>7, <3>2 DEF Quota, Fresh
    <3> QED BY <3>1, <3>2
  <2>8. \A h, k \in Games :
          Player[h] = Player[k] /\ Player[h] \notin loose' /\ Mid(h)' /\ Mid(k)' => h = k
    BY <2>2, <2>3 DEF Quota, Mid
  <2>9. \A p \in Pushes : Pusher[p] \notin loose' => sent'[p].bonus >= 0
    BY <2>1, <2>2 DEF Quota
  <2> QED BY <2>6, <2>7, <2>8, <2>9 DEF Quota
<1>2. CASE QuotaFree(g)
  <2>1. UNCHANGED <<today, bonus, read, myBonus, sent>> /\ at[g] = "free" /\ ~Mid(g)'
    BY <1>2 DEF QuotaFree, Mid, TypeOK
  <2>2. \/ /\ used' = [used EXCEPT ![Player[g]] = read[g].used + 1]
           /\ date' = [date EXCEPT ![Player[g]] = read[g].day]
           /\ played' = [played EXCEPT ![Player[g]][read[g].day] = @ + 1]
           /\ loose' = loose
        \/ UNCHANGED <<used, date, played>> /\ loose' = loose \cup {Player[g]}
    BY <1>2 DEF QuotaFree
  <2>3. loose \subseteq loose'
    BY <2>2
  <2>4. ASSUME NEW u \in Users \ loose'
        PROVE  Ledger(u)'
    <3>1. Ledger(u)
      BY <2>3 DEF Quota
    <3>2. CASE u # Player[g] \/ UNCHANGED <<used, date, played>>
      BY <2>1, <2>2, <3>1, <3>2 DEF Ledger
    <3>3. CASE u = Player[g] /\ loose' = loose
      <4>1. /\ used' = [used EXCEPT ![u] = read[g].used + 1]
            /\ date' = [date EXCEPT ![u] = read[g].day]
            /\ played' = [played EXCEPT ![u][read[g].day] = @ + 1]
        BY <2>2, <3>3
      <4>2. /\ date[u] <= read[g].day /\ read[g].day <= today
            /\ read[g].used = IF date[u] = read[g].day THEN used[u] ELSE 0
        BY <2>1, <2>4, <3>3 DEF Quota, Fresh
      <4>3. played[u][read[g].day] = read[g].used /\ read[g].used < Free
        <5>1. read[g].used < Free
          BY <2>1 DEF Room
        <5>2. CASE date[u] = read[g].day
          BY <3>1, <4>2, <5>1, <5>2 DEF Ledger
        <5>3. CASE date[u] # read[g].day
          <6>1. read[g].day > date[u] /\ read[g].used = 0
            <7>1. date[u] \in Nat /\ read[g].day \in Nat
              BY <1>b
            <7>3. read[g].day > date[u]
              BY <4>2, <5>3, <7>1, NatOrder
            <7>4. read[g].used = 0
              BY <4>2, <5>3
            <7> QED BY <7>3, <7>4
          <6> QED BY <3>1, <5>1, <6>1 DEF Ledger
        <5> QED BY <5>2, <5>3
      <4>4. /\ used'[u] = read[g].used + 1 /\ date'[u] = read[g].day
            /\ \A d \in Days : played'[u][d] = IF d = read[g].day
                                                 THEN read[g].used + 1
                                                 ELSE played[u][d]
        BY <4>1, <4>3
      <4>5. /\ date'[u] <= today' /\ bonus'[u] >= 0 /\ myBonus'[u] >= 0
            /\ played'[u][date'[u]] = used'[u]
        BY <2>1, <3>1, <4>2, <4>4 DEF Ledger
      <4>6. ASSUME NEW d \in Days
            PROVE  played'[u][d] <= Free /\ (d > date'[u] => played'[u][d] = 0)
        <5>1. CASE d = read[g].day
          BY <4>3, <4>4, <5>1
        <5>2. CASE d # read[g].day
          <6>1. /\ played'[u][d] = played[u][d] /\ date'[u] = read[g].day
                /\ date[u] <= read[g].day
            BY <4>2, <4>4, <5>2
          <6>2. played[u][d] <= Free /\ (d > date[u] => played[u][d] = 0)
            BY <3>1 DEF Ledger
          <6>3. d \in Nat /\ date[u] \in Nat /\ read[g].day \in Nat
            BY <1>b
          <6> QED BY <6>1, <6>2, <6>3
        <5> QED BY <5>1, <5>2
      <4> QED BY <4>5, <4>6 DEF Ledger
    <3> QED BY <2>2, <3>2, <3>3
  <2>5. ASSUME NEW h \in Games, Player[h] \notin loose'
        PROVE  Fresh(h)'
    <3>1. CASE h = g
      BY <2>1, <3>1 DEF Fresh, Mid
    <3>2. CASE h # g /\ Player[h] = Player[g]
      BY <2>1, <2>3, <2>5, <3>2 DEF Quota, Fresh, Mid
    <3>3. CASE Player[h] # Player[g]
      <4>1. Player[h] \in Users /\ h # g
        BY WalletAssumption, <3>3
      <4>2. used'[Player[h]] = used[Player[h]] /\ date'[Player[h]] = date[Player[h]]
        BY <2>2, <3>3, <4>1
      <4> QED BY <2>1, <2>3, <2>5, <4>1, <4>2 DEF Quota, Fresh
    <3> QED BY <3>1, <3>2, <3>3
  <2>6. \A h, k \in Games :
          Player[h] = Player[k] /\ Player[h] \notin loose' /\ Mid(h)' /\ Mid(k)' => h = k
    BY <2>1, <2>3 DEF Quota, Mid
  <2>7. \A p \in Pushes : Pusher[p] \notin loose' => sent'[p].bonus >= 0
    BY <2>1, <2>3 DEF Quota
  <2> QED BY <2>4, <2>5, <2>6, <2>7 DEF Quota
<1>3. CASE QuotaBonus(g)
  <2>1. /\ UNCHANGED <<today, used, date, played, read, myBonus, sent>>
        /\ at[g] = "bonus" /\ ~Mid(g)'
    BY <1>3 DEF QuotaBonus, Mid, TypeOK
  <2>2. \/ bonus' = [bonus EXCEPT ![Player[g]] = @ - 1] /\ loose' = loose
        \/ bonus' = bonus /\ loose' = loose \cup {Player[g]}
    BY <1>3 DEF QuotaBonus
  <2>3. loose \subseteq loose'
    BY <2>2
  <2>4. ASSUME NEW u \in Users \ loose'
        PROVE  Ledger(u)'
    <3>1. Ledger(u)
      BY <2>3 DEF Quota
    <3>2. bonus'[u] >= 0
      <4>1. CASE u # Player[g] \/ bonus' = bonus
        BY <2>2, <3>1, <4>1 DEF Ledger
      <4>2. CASE u = Player[g]
        <5>1. bonus[u] > 0
          BY <2>1, <2>3, <2>4, <4>2 DEF Quota, Fresh
        <5> QED BY <2>2, <4>2, <5>1
      <4> QED BY <4>1, <4>2
    <3> QED BY <2>1, <3>1, <3>2 DEF Ledger
  <2>5. ASSUME NEW h \in Games, Player[h] \notin loose'
        PROVE  Fresh(h)'
    <3>1. CASE h = g
      BY <2>1, <3>1 DEF Fresh, Mid
    <3>2. CASE h # g /\ Player[h] = Player[g]
      BY <2>1, <2>3, <2>5, <3>2 DEF Quota, Fresh, Mid
    <3>3. CASE Player[h] # Player[g]
      <4>1. Player[h] \in Users /\ h # g
        BY WalletAssumption, <3>3
      <4>2. bonus'[Player[h]] = bonus[Player[h]]
        BY <2>2, <3>3, <4>1
      <4> QED BY <2>1, <2>3, <2>5, <4>1, <4>2 DEF Quota, Fresh
    <3> QED BY <3>1, <3>2, <3>3
  <2>6. \A h, k \in Games :
          Player[h] = Player[k] /\ Player[h] \notin loose' /\ Mid(h)' /\ Mid(k)' => h = k
    BY <2>1, <2>3 DEF Quota, Mid
  <2>7. \A p \in Pushes : Pusher[p] \notin loose' => sent'[p].bonus >= 0
    BY <2>1, <2>3 DEF Quota
  <2> QED BY <2>4, <2>5, <2>6, <2>7 DEF Quota
<1>4. CASE Consume(g)
  <2>1. /\ UNCHANGED <<today, used, date, played, read, bonus, loose, sent>>
        /\ at'[g] = "counted"
    BY <1>4 DEF Consume, ClientOnly, TypeOK
  <2>2. \A u \in Users : myBonus[u] >= 0 => myBonus'[u] >= 0
    BY <1>4 DEF Consume
  <2>3. \A u \in Users \ loose' : Ledger(u)'
    BY <2>1, <2>2 DEF Quota, Ledger
  <2> QED BY <2>1, <2>3 DEF Quota, Fresh, Mid
<1> QED BY <1>1, <1>2, <1>3, <1>4 DEF GameStep

LEMMA QuotaStep ==
  ASSUME TypeOK, Room, Quota, [Next]_vars
  PROVE  Quota'
<1>t. /\ today \in Int /\ Days \subseteq Int /\ loose \subseteq Users
      /\ bonus \in [Users -> Int] /\ myBonus \in [Users -> Int]
      /\ sent \in [Pushes -> [coins : Int, bonus : Int]]
      /\ \A h \in Games : Player[h] \in Users /\ read[h].day \in Int
      /\ \A p \in Pushes : Pusher[p] \in Users
  BY WalletAssumption DEF TypeOK, Days
<1> USE <1>t, CallFacts DEF CallTo
<1>1. ASSUME NEW e \in Entries, EntryStep(e)
      PROVE  Quota'
  <2>1. UNCHANGED <<today, quotaVars, clientVars>>
    BY <1>1 DEF EntryStep, EntryFind, EntryCoins, EntryPay, EntryPush, EntryOnly
  <2>2. \A h \in Calls : h # e => at'[h] = at[h]
    BY <1>1 DEF EntryStep, EntryFind, EntryCoins, EntryPay, EntryPush, TypeOK
  <2>3. \A h \in Games : at'[h] = at[h]
    BY <2>2
  <2> QED BY <2>1, <2>3 DEF Quota, Ledger, Fresh, Mid, quotaVars, clientVars
<1>2. ASSUME NEW p \in Pushes, PushSend(p)
      PROVE  Quota'
  <2>1. UNCHANGED <<today, used, date, read, played, bonus, loose, myBonus>>
    BY <1>2 DEF PushSend, ClientOnly
  <2>2. \A h \in Games : at'[h] = at[h]
    BY <1>2 DEF PushSend, TypeOK
  <2>3. sent' = [sent EXCEPT ![p] = [coins |-> myCoins[Pusher[p]],
                                     bonus |-> myBonus[Pusher[p]]]]
    BY <1>2 DEF PushSend
  <2>4. \A q \in Pushes : Pusher[q] \notin loose => sent'[q].bonus >= 0
    BY <2>3 DEF Quota, Ledger
  <2> QED BY <2>1, <2>2, <2>4 DEF Quota, Ledger, Fresh, Mid
<1>3. ASSUME NEW p \in Pushes, PushApply(p)
      PROVE  Quota'
  <2>1. UNCHANGED <<today, used, date, read, played, myBonus, sent>>
    BY <1>3 DEF PushApply, clientVars
  <2>2. \A h \in Games : at'[h] = at[h]
    BY <1>3 DEF PushApply, TypeOK
  <2>3. \/ /\ bonus' = [bonus EXCEPT ![Pusher[p]] = sent[p].bonus]
           /\ loose' = loose \cup MidGame(Pusher[p])
        \/ UNCHANGED <<bonus, loose>>
    BY <1>3 DEF PushApply
  <2>4. loose \subseteq loose'
    BY <2>3
  <2>5. \A u \in Users \ loose' : Ledger(u)'
    BY <2>1, <2>3, <2>4 DEF Quota, Ledger
  <2>6. ASSUME NEW h \in Games, Player[h] \notin loose'
        PROVE  Fresh(h)'
    <3>1. CASE UNCHANGED bonus
      BY <2>1, <2>2, <2>4, <2>6, <3>1 DEF Quota, Fresh
    <3>2. CASE Player[h] = Pusher[p] /\ loose' = loose \cup MidGame(Pusher[p])
      BY <2>1, <2>2, <2>6, <3>2 DEF Fresh, MidGame
    <3>3. CASE Player[h] # Pusher[p]
      <4>1. bonus'[Player[h]] = bonus[Player[h]]
        BY <2>3, <3>3
      <4> QED BY <2>1, <2>2, <2>4, <2>6, <4>1 DEF Quota, Fresh
    <3> QED BY <2>3, <3>1, <3>2, <3>3
  <2> QED BY <2>1, <2>2, <2>4, <2>5, <2>6 DEF Quota, Mid
<1>4. ASSUME NEW u \in Users, Gift(u) \/ Sync(u)
      PROVE  Quota'
  <2>1. UNCHANGED <<at, today, used, date, read, played, bonus, loose, sent>>
    BY <1>4 DEF Gift, Sync, ClientOnly
  <2>2. \A v \in Users \ loose : myBonus'[v] >= 0
    BY <1>4 DEF Gift, Sync, Quota, Ledger
  <2> QED BY <2>1, <2>2 DEF Quota, Ledger, Fresh, Mid
<1>5. CASE Midnight
  <2>1. UNCHANGED <<at, quotaVars, clientVars>> /\ today' = today + 1
    BY <1>5 DEF Midnight
  <2>2. \A u \in Users : date[u] \in Int
    BY DEF TypeOK
  <2>3. \A u \in Users \ loose : Ledger(u)'
    BY <2>1, <2>2 DEF Quota, Ledger, quotaVars, clientVars
  <2>4. \A h \in Games : Fresh(h) => Fresh(h)'
    BY <2>1 DEF Fresh, quotaVars, clientVars
  <2> QED BY <2>1, <2>3, <2>4 DEF Quota, Mid, quotaVars, clientVars
<1>6. CASE Restart
  <2>1. UNCHANGED <<today, quotaVars, clientVars>>
    BY <1>6 DEF Restart
  <2>2. \A h \in Games : ~Mid(h)'
    BY <1>6 DEF Restart, Mid, TypeOK
  <2> QED BY <2>1, <2>2 DEF Quota, Ledger, Fresh, Mid, quotaVars, clientVars
<1>7. CASE UNCHANGED vars
  BY <1>7 DEF vars, Quota, Ledger, Fresh, Mid, quotaVars, clientVars
<1> QED BY <1>1, <1>2, <1>3, <1>4, <1>5, <1>6, <1>7, QuotaGame DEF Next, PushStep

----------------------------------------------------------------------------
(* Tournaments.                                                            *)

Held(t) ==
  /\ IsFiniteSet(entered[t])
  /\ Cardinality(entered[t]) <= Places[t]
  /\ \A x, y \in entered[t] : Entrant[x] = Entrant[y] => x = y

\* An entry on its way has found a place, and is alone on its way.
Reserved(t) ==
  /\ \A e, f \in Entering(t) : e = f
  /\ \A e \in Entering(t) :
       /\ Cardinality(entered[t]) < Places[t]
       /\ \A x \in entered[t] : Entrant[x] # Entrant[e]

Crowd == \A t \in Tournaments \ rushed : Held(t) /\ Reserved(t)

Fees ==
  /\ FeeBuysPlace
  /\ \A e \in Entries : at[e] = "push" /\ Fee[EntryTo[e]] > 0 => e \in paid \cup stranded

\* An entry about to take the fee finds it there, and is alone to do so.
Purse ==
  /\ CoinsHeld
  /\ \A e \in Entries : Entrant[e] \notin spree /\ at[e] = "pay" =>
       coins[Entrant[e]] >= Fee[EntryTo[e]]
  /\ \A e, f \in Entries :
       /\ Entrant[e] = Entrant[f] /\ Entrant[e] \notin spree
       /\ at[e] = "pay" /\ at[f] = "pay"
       => e = f


LEMMA PlacesInit == Init => Crowd /\ Fees /\ Purse
BY CallFacts, WalletAssumption, FS_EmptySet
   DEF Init, Crowd, Held, Reserved, Entering, Fees, FeeBuysPlace, Purse, CoinsHeld

\* What a step that is not an entry's leaves alone, and how it moves coins.
Aside ==
  /\ UNCHANGED <<entered, paid, rushed, spree>>
  /\ stranded \subseteq stranded'
  /\ \A e \in Entries : \/ at'[e] = at[e]
                        \/ at'[e] = "refused" /\ (at[e] = "push" => e \in stranded')
  /\ \A u \in Users : coins'[u] >= coins[u]

LEMMA OthersAside ==
  ASSUME TypeOK,
         \/ \E g \in Games : GameStep(g)
         \/ \E p \in Pushes : PushStep(p)
         \/ \E u \in Users : Gift(u) \/ Sync(u)
         \/ Midnight
         \/ Restart
         \/ UNCHANGED vars
  PROVE  Aside
<1>t. coins \in [Users -> Int] /\ \A p \in Pushes : Pusher[p] \in Users
  BY WalletAssumption DEF TypeOK
<1> USE CallFacts, <1>t DEF Aside, entryVars, CallTo
<1>1. ASSUME NEW g \in Games, GameStep(g)
      PROVE  Aside
  <2>1. UNCHANGED entryVars
    BY <1>1 DEF GameStep, QuotaRead, QuotaFree, QuotaBonus, QuotaOnly, Consume,
                ClientOnly
  <2>2. \A e \in Entries : at'[e] = at[e]
    BY <1>1 DEF GameStep, QuotaRead, QuotaFree, QuotaBonus, Consume, TypeOK
  <2> QED BY <2>1, <2>2
<1>2. ASSUME NEW p \in Pushes, PushStep(p)
      PROVE  Aside
  <2>1. \A e \in Entries : at'[e] = at[e]
    BY <1>2 DEF PushStep, PushSend, PushApply, TypeOK
  <2>2. CASE PushSend(p)
    BY <2>1, <2>2 DEF PushSend, ClientOnly
  <2>3. CASE PushApply(p)
    <3>1. sent[p].coins \in Int
      BY DEF TypeOK
    <3> QED BY <2>1, <2>3, <3>1 DEF PushApply
  <2> QED BY <1>2, <2>2, <2>3 DEF PushStep
<1>3. ASSUME NEW u \in Users, Gift(u) \/ Sync(u)
      PROVE  Aside
  BY <1>3 DEF Gift, Sync, ClientOnly
<1>4. CASE Midnight
  BY <1>4 DEF Midnight
<1>5. CASE Restart
  BY <1>5 DEF Restart, TypeOK
<1>6. CASE UNCHANGED vars
  BY <1>6 DEF vars
<1> QED BY <1>1, <1>2, <1>3, <1>4, <1>5, <1>6

LEMMA PlacesAside ==
  ASSUME TypeOK, TypeOK', Crowd, Fees, Purse, Aside
  PROVE  Crowd' /\ Fees' /\ Purse'
<1>1. \A e \in Entries : at'[e] \in {"coins", "pay", "push"} => at'[e] = at[e]
  BY DEF Aside
<1>2. Crowd'
  <2>1. \A t \in Tournaments : Entering(t)' \subseteq Entering(t)
    BY <1>1 DEF Entering
  <2> QED BY <2>1 DEF Crowd, Held, Reserved, Aside
<1>3. Fees'
  BY <1>1 DEF Fees, FeeBuysPlace, Aside
<1>4. Purse'
  <2>1. /\ \A e \in Entries : Entrant[e] \in Users /\ Fee[EntryTo[e]] \in Int
        /\ \A u \in Users : coins'[u] >= coins[u] /\ coins[u] \in Int /\ coins'[u] \in Int
    <3>1. \A u \in Users : coins[u] \in Int /\ coins'[u] \in Int
      BY DEF TypeOK
    <3> QED BY <3>1, WalletAssumption DEF Aside
  <2> QED BY <1>1, <2>1 DEF Purse, CoinsHeld, Aside
<1> QED BY <1>2, <1>3, <1>4

LEMMA PlacesEntry ==
  ASSUME TypeOK, TypeOK', Crowd, Fees, Purse, NEW e \in Entries, EntryStep(e)
  PROVE  Crowd' /\ Fees' /\ Purse'
<1> DEFINE t == EntryTo[e]
           u == Entrant[e]
<1>0. /\ e \in Calls /\ Entries \subseteq Calls
      /\ t \in Tournaments /\ u \in Users /\ Fee[t] \in Nat /\ Places[t] \in Nat
      /\ \A f \in Entries : /\ Entrant[f] \in Users /\ EntryTo[f] \in Tournaments
                            /\ Fee[EntryTo[f]] \in Nat
      /\ coins \in [Users -> Int] /\ entered \in [Tournaments -> SUBSET Entries]
      /\ \A v \in Users : coins[v] \in Int
  BY WalletAssumption DEF Calls, TypeOK
<1>1. \A f \in Entries : f # e => at'[f] = at[f]
  BY <1>0 DEF EntryStep, EntryFind, EntryCoins, EntryPay, EntryPush, CallTo, TypeOK
<1> HIDE DEF t, u
<1> USE <1>0, <1>1 DEF CallTo, t, u
<1>2. CASE EntryFind(e)
  <2>1. /\ UNCHANGED <<coins, entered, paid, stranded, spree>>
        /\ at[e] = "idle" /\ at'[e] \in {"coins", "push", "refused"}
        /\ at'[e] = "push" => Fee[t] = 0
    BY <1>2 DEF EntryFind, TypeOK
  <2>2. \/ at'[e] = "refused" /\ rushed' = rushed
        \/ /\ Cardinality(entered[t]) < Places[t]
           /\ \A x \in entered[t] : Entrant[x] # u
           /\ rushed' = rushed \cup {s \in {t} : Entering(s) # {}}
    BY <1>2 DEF EntryFind, TypeOK
  <2>3. \A s \in Tournaments : Entering(s)' \subseteq Entering(s) \cup {e}
    BY DEF Entering
  <2>4. \A s \in Tournaments : s # t => Entering(s)' = Entering(s)
    BY DEF Entering
  <2>5. at'[e] = "refused" => Entering(t)' = Entering(t)
    BY <2>1 DEF Entering
  <2>6. ASSUME NEW s \in Tournaments \ rushed'
        PROVE  Held(s)' /\ Reserved(s)'
    <3>1. Held(s) /\ Reserved(s)
      BY <2>2, <2>6 DEF Crowd
    <3>2. CASE s # t \/ at'[e] = "refused"
      BY <2>1, <2>4, <2>5, <3>1, <3>2 DEF Held, Reserved
    <3>3. CASE s = t /\ at'[e] # "refused"
      <4>1. Entering(t) = {}
        BY <2>2, <2>6, <3>3
      <4>2. Entering(t)' \subseteq {e}
        BY <2>3, <4>1
      <4> QED BY <2>1, <2>2, <3>1, <3>3, <4>2 DEF Held, Reserved
    <3> QED BY <3>2, <3>3
  <2>7. Crowd'
    BY <2>6 DEF Crowd
  <2>8. Fees'
    BY <2>1 DEF Fees, FeeBuysPlace
  <2>9. Purse'
    BY <2>1 DEF Purse, CoinsHeld
  <2> QED BY <2>7, <2>8, <2>9
<1>3. CASE EntryCoins(e)
  <2>1. /\ UNCHANGED <<coins, entered, paid, stranded, rushed>>
        /\ at[e] = "coins" /\ at'[e] \in {"pay", "refused"}
        /\ spree \subseteq spree'
        /\ at'[e] = "pay" => /\ coins[u] >= Fee[t]
                             /\ u \notin spree' => MidPayment(u) = {}
    BY <1>3 DEF EntryCoins, MidPayment, TypeOK
  <2>2. \A s \in Tournaments : Entering(s)' \subseteq Entering(s)
    BY <2>1 DEF Entering
  <2>3. Crowd'
    BY <2>1, <2>2 DEF Crowd, Held, Reserved
  <2>4. Fees'
    BY <2>1 DEF Fees, FeeBuysPlace
  <2>5. Purse'
    BY <2>1 DEF Purse, CoinsHeld, MidPayment
  <2> QED BY <2>3, <2>4, <2>5
<1>4. CASE EntryPay(e)
  <2>1. /\ UNCHANGED <<entered, rushed, spree>>
        /\ at[e] = "pay" /\ at'[e] = "push"
        /\ \/ /\ coins' = [coins EXCEPT ![u] = @ - Fee[t]]
              /\ paid' = paid \cup {e} /\ stranded' = stranded
           \/ UNCHANGED <<coins, paid>> /\ stranded' = stranded \cup {e}
    BY <1>4 DEF EntryPay, TypeOK
  <2>2. \A s \in Tournaments : Entering(s)' \subseteq Entering(s)
    BY <2>1 DEF Entering
  <2>3. Crowd'
    BY <2>1, <2>2 DEF Crowd, Held, Reserved
  <2>4. Fees'
    BY <2>1 DEF Fees, FeeBuysPlace
  <2>5. u \notin spree => coins'[u] >= 0
    BY <2>1 DEF Purse, CoinsHeld
  <2>6. \A v \in Users : v # u => coins'[v] = coins[v]
    BY <2>1
  <2>7. \A f \in Entries : Entrant[f] = u /\ u \notin spree => at'[f] # "pay"
    BY <2>1 DEF Purse
  <2>8. Purse'
    BY <2>1, <2>5, <2>6, <2>7 DEF Purse, CoinsHeld
  <2> QED BY <2>3, <2>4, <2>8
<1>5. CASE EntryPush(e)
  <2>1. /\ UNCHANGED <<coins, paid, rushed, spree>>
        /\ at[e] = "push" /\ at'[e] \in {"ok", "refused"}
        /\ \/ /\ entered' = [entered EXCEPT ![t] = @ \cup {e}]
              /\ stranded' = stranded
           \/ entered' = entered /\ stranded' = stranded \cup {e}
    BY <1>5 DEF EntryPush, TypeOK
  <2>2. \A s \in Tournaments : Entering(s)' \subseteq Entering(s)
    BY <2>1 DEF Entering
  <2>3. e \in Entering(t) /\ e \notin Entering(t)'
    BY <2>1 DEF Entering
  <2>4. ASSUME NEW s \in Tournaments \ rushed'
        PROVE  Held(s)' /\ Reserved(s)'
    <3>1. Held(s) /\ Reserved(s)
      BY <2>1, <2>4 DEF Crowd
    <3>2. CASE s # t \/ entered' = entered
      <4>1. entered'[s] = entered[s]
        BY <2>1, <3>2
      <4> QED BY <2>2, <3>1, <4>1 DEF Held, Reserved
    <3>3. CASE s = t /\ entered'[t] = entered[t] \cup {e}
      <4>1. /\ Cardinality(entered[t]) < Places[t]
            /\ \A x \in entered[t] : Entrant[x] # u
            /\ IsFiniteSet(entered[t])
        BY <2>3, <3>1, <3>3 DEF Held, Reserved
      <4>2. /\ IsFiniteSet(entered'[t])
            /\ Cardinality(entered'[t]) <= Cardinality(entered[t]) + 1
            /\ Cardinality(entered[t]) \in Nat /\ Cardinality(entered'[t]) \in Nat
        <5>1. /\ IsFiniteSet(entered[t] \cup {e})
              /\ \/ Cardinality(entered[t] \cup {e}) = Cardinality(entered[t])
                 \/ Cardinality(entered[t] \cup {e}) = Cardinality(entered[t]) + 1
          BY <4>1, FS_AddElement
        <5>2. Cardinality(entered[t]) \in Nat
          BY <4>1, FS_CardinalityType
        <5> QED BY <3>3, <5>1, <5>2
      <4>3. Entering(t)' = {}
        BY <2>2, <2>3, <3>1, <3>3 DEF Reserved
      <4>4. Cardinality(entered'[t]) <= Places[t]
        BY <4>1, <4>2
      <4>5. \A x, y \in entered'[t] : Entrant[x] = Entrant[y] => x = y
        BY <3>1, <3>3, <4>1 DEF Held
      <4> QED BY <3>3, <4>2, <4>3, <4>4, <4>5 DEF Held, Reserved
    <3> QED BY <2>1, <3>2, <3>3
  <2>5. Crowd'
    BY <2>4 DEF Crowd
  <2>6. Fees'
    <3>1. \A f \in Entries : f \in entered'[EntryTo[f]] =>
            f \in entered[EntryTo[f]] \/ f = e
      BY <2>1
    <3>2. \A f \in Entries : f \in entered[EntryTo[f]] => f \in entered'[EntryTo[f]]
      BY <2>1
    <3>3. e \in entered'[EntryTo[e]] \/ e \in stranded'
      BY <2>1
    <3> QED BY <2>1, <3>1, <3>2, <3>3 DEF Fees, FeeBuysPlace
  <2>7. Purse'
    BY <2>1 DEF Purse, CoinsHeld
  <2> QED BY <2>5, <2>6, <2>7
<1> QED BY <1>2, <1>3, <1>4, <1>5 DEF EntryStep

----------------------------------------------------------------------------
(* The theorems.                                                           *)

IInv == TypeOK /\ Room /\ Quota /\ Crowd /\ Fees /\ Purse

LEMMA IInvInit == Init => IInv
BY TypeInit, QuotaInit, PlacesInit DEF IInv

LEMMA IInvStep == IInv /\ [Next]_vars => IInv'
<1> SUFFICES ASSUME IInv, [Next]_vars
             PROVE  IInv'
  OBVIOUS
<1>1. TypeOK' /\ Room' /\ Quota'
  BY TypeStep, QuotaStep DEF IInv
<1>2. ASSUME NEW e \in Entries, EntryStep(e)
      PROVE  Crowd' /\ Fees' /\ Purse'
  BY <1>1, <1>2, PlacesEntry DEF IInv
<1>3. Crowd' /\ Fees' /\ Purse'
  BY <1>1, <1>2, OthersAside, PlacesAside DEF IInv, Next
<1> QED BY <1>1, <1>3 DEF IInv

LEMMA IInvHolds == Spec => []IInv
BY IInvInit, IInvStep, PTL DEF Spec

\* The variables keep their types: no interleaving counts more than the free
\* games of a day (matchmaking.go:497-537).
THEOREM TypeCorrect == Spec => []TypeOK
<1>1. IInv => TypeOK
  BY DEF IInv
<1> QED BY <1>1, IInvHolds, PTL

\* A day's free games and the bonus games are never overdrawn, unless joins
\* overlapped, a push fell between, or a command failed
\* (matchmaking.go:494-537).
THEOREM QuotasHeld == Spec => []QuotaHeld
<1>1. IInv => QuotaHeld
  BY DEF IInv, Quota, Ledger, QuotaHeld
<1> QED BY <1>1, IInvHolds, PTL

\* Only overlapping entries overfill a tournament or repeat a participant
\* (tournament.go:173-221).
THEOREM TournamentsHeld == Spec => []TournamentHeld
<1>1. IInv => TournamentHeld
  BY DEF IInv, Crowd, Held, TournamentHeld
<1> QED BY <1>1, IInvHolds, PTL

\* A fee and a place go together, but for failures and restarts
\* (tournament.go:205-224).
THEOREM FeesBuyPlaces == Spec => []FeeBuysPlace
<1>1. IInv => FeeBuysPlace
  BY DEF IInv, Fees
<1> QED BY <1>1, IInvHolds, PTL

\* Only overlapping payments make coins negative (tournament.go:205-214).
THEOREM CoinsAreHeld == Spec => []CoinsHeld
<1>1. IInv => CoinsHeld
  BY DEF IInv, Purse
<1> QED BY <1>1, IInvHolds, PTL
=============================================================================
