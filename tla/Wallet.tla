------------------------------- MODULE Wallet -------------------------------
(***************************************************************************)
(* What a player's document of users counts: the games of the day and the  *)
(* bonus games (enforceQuotaAndIncrement, which JoinMatchmaking calls      *)
(* first), and the coins, which pay for tournaments (tournament.go); and   *)
(* the client, which keeps copies of its own and pushes them to the server *)
(* (user_stats.go, auth_service.dart).                                     *)
(*                                                                         *)
(* One MongoDB command is one step.  Subscriptions and the status of a     *)
(* tournament do not change here.  The Redis keys user:{id}:daily_quota    *)
(* and :plan, which nothing reads, are left out.                           *)
(***************************************************************************)
EXTENDS Integers, FiniteSets

CONSTANTS
  Users,
  Subscribers,  \* users with an active subscription
  Free,         \* free games per day
  LastDay,      \* bound: the last day, counted from 0
  Games,        \* JoinMatchmaking calls that may be made
  Player,       \* the user making each
  Tournaments,  \* those with status "upcoming"
  Places,       \* max_participants of each
  Fee,          \* entry_fee of each
  PremiumOnly,  \* those for subscribers
  Entries,      \* tournament Join calls that may be made
  Entrant,      \* the user making each
  EntryTo,      \* the tournament of each
  Pushes,       \* POST /user/stats that may be sent
  Pusher,       \* the user sending each
  Coins0,       \* coins of every user at first
  Bonus0,       \* bonus games of every user at first
  MaxGifts,     \* bound: daily and referral rewards, counted by the client
  MaxFaults     \* bound: failed commands and restarts of the service

Days  == 0..LastDay
Calls == Games \cup Entries \cup Pushes

ASSUME WalletAssumption ==
  /\ Subscribers \subseteq Users /\ PremiumOnly \subseteq Tournaments
  /\ Player \in [Games -> Users] /\ Entrant \in [Entries -> Users]
  /\ EntryTo \in [Entries -> Tournaments] /\ Pusher \in [Pushes -> Users]
  /\ Games \cap Entries = {} /\ (Games \cup Entries) \cap Pushes = {}
  /\ Places \in [Tournaments -> Nat \ {0}] /\ Fee \in [Tournaments -> Nat]
  /\ Free \in Nat \ {0} /\ LastDay \in Nat
  /\ Coins0 \in Nat /\ Bonus0 \in Nat
  /\ MaxGifts \in Nat /\ MaxFaults \in Nat

VARIABLES
  at,                \* the place of each call
  today,
  used, date,        \* daily_quiz_used and last_quiz_date
  bonus, coins,      \* bonus_games_remaining and coins
  read,              \* what each game has read: the games of the day, and it
  entered,           \* the participants of each tournament, by their calls
  myCoins, myBonus,  \* the client's copies
  sent,              \* what each push carries
  \* what happened, for the properties only
  played,            \* free games of each user and day that were counted
  loose,             \* users whose joins overlapped, or were not counted
  paid,              \* entries whose fee was taken
  stranded,          \* entries that a failure or a restart cut short
  rushed,            \* tournaments with two entries between check and push
  spree,             \* users with two entries between check and payment
  gifts, faults

quotaVars   == <<used, date, bonus, read, played, loose>>
entryVars   == <<coins, entered, paid, stranded, rushed, spree>>
clientVars  == <<myCoins, myBonus, sent, gifts>>
vars == <<at, today, quotaVars, entryVars, clientVars, faults>>

Spots == {"idle", "free", "bonus", "admitted", "counted", "coins", "pay",
          "push", "sent", "ok", "refused"}

TypeOK ==
  /\ at \in [Calls -> Spots] /\ today \in Days
  /\ used \in [Users -> 0..Free] /\ date \in [Users -> Days]
  /\ bonus \in [Users -> Int] /\ coins \in [Users -> Int]
  /\ read \in [Games -> [used : 0..Free, day : Days]]
  /\ entered \in [Tournaments -> SUBSET Entries]
  /\ myCoins \in [Users -> Int] /\ myBonus \in [Users -> Int]
  /\ sent \in [Pushes -> [coins : Int, bonus : Int]]
  /\ played \in [Users -> [Days -> Nat]]
  /\ loose \subseteq Users /\ spree \subseteq Users
  /\ paid \subseteq Entries /\ stranded \subseteq Entries
  /\ rushed \subseteq Tournaments
  /\ gifts \in 0..MaxGifts /\ faults \in 0..MaxFaults

Init ==
  /\ at = [c \in Calls |-> "idle"] /\ today = 0
  /\ used = [u \in Users |-> 0] /\ date = [u \in Users |-> 0]
  /\ bonus = [u \in Users |-> Bonus0] /\ coins = [u \in Users |-> Coins0]
  /\ read = [g \in Games |-> [used |-> 0, day |-> 0]]
  /\ entered = [t \in Tournaments |-> {}]
  /\ myCoins = [u \in Users |-> Coins0] /\ myBonus = [u \in Users |-> Bonus0]
  /\ sent = [p \in Pushes |-> [coins |-> 0, bonus |-> 0]]
  /\ played = [u \in Users |-> [d \in Days |-> 0]]
  /\ loose = {} /\ spree = {} /\ paid = {} /\ stranded = {} /\ rushed = {}
  /\ gifts = 0 /\ faults = 0

\* A command succeeds, or fails within the bound, having had its effect or
\* not.
Works == UNCHANGED faults
Fails == faults < MaxFaults /\ faults' = faults + 1

CallTo(c, spot) == at' = [at EXCEPT ![c] = spot]

----------------------------------------------------------------------------
(* enforceQuotaAndIncrement.                                               *)

QuotaOnly == UNCHANGED <<today, entryVars, clientVars>>

\* u, if a game of u has read the document and not yet written it.
MidGame(u) ==
  {v \in {u} : \E g \in Games : Player[g] = v /\ at[g] \in {"free", "bonus"}}

UsedToday(u) == IF date[u] = today THEN used[u] ELSE 0

\* The subscription and the user's counters; any error admits the player.
QuotaRead(g) ==
  LET u == Player[g]
  IN  /\ at[g] = "idle"
      /\ \/ /\ u \in Subscribers /\ Works
            /\ CallTo(g, "admitted") /\ UNCHANGED <<read, loose>>
         \/ /\ u \notin Subscribers /\ Works
            /\ read' = [read EXCEPT ![g] = [used |-> UsedToday(u), day |-> today]]
            /\ loose' = loose \cup MidGame(u)
            /\ CallTo(g, IF UsedToday(u) < Free THEN "free"
                         ELSE IF bonus[u] > 0 THEN "bonus" ELSE "refused")
         \/ /\ Fails /\ CallTo(g, "admitted")
            /\ loose' = loose \cup {u} /\ UNCHANGED read
      /\ UNCHANGED <<used, date, bonus, played>> /\ QuotaOnly

\* Wrong: last_quiz_date is not set.
QuotaFree_NoDate(g) ==
  LET u == Player[g]
  IN  /\ at[g] = "free" /\ Works /\ CallTo(g, "admitted")
      /\ used' = [used EXCEPT ![u] = read[g].used + 1]
      /\ played' = [played EXCEPT ![u][read[g].day] = @ + 1]
      /\ UNCHANGED <<date, bonus, read, loose>> /\ QuotaOnly

\* A free game: both fields are written from what was read.
QuotaFree(g) ==
  LET u == Player[g]
      count == /\ used' = [used EXCEPT ![u] = read[g].used + 1]
               /\ date' = [date EXCEPT ![u] = read[g].day]
               /\ played' = [played EXCEPT ![u][read[g].day] = @ + 1]
               /\ UNCHANGED loose
  IN  /\ at[g] = "free" /\ CallTo(g, "admitted")
      /\ \/ (Works \/ Fails) /\ count
         \/ Fails /\ UNCHANGED <<used, date, played>> /\ loose' = loose \cup {u}
      /\ UNCHANGED <<bonus, read>> /\ QuotaOnly

\* A bonus game.
QuotaBonus(g) ==
  LET u == Player[g]
  IN  /\ at[g] = "bonus" /\ CallTo(g, "admitted")
      /\ \/ /\ Works \/ Fails
            /\ bonus' = [bonus EXCEPT ![u] = @ - 1] /\ UNCHANGED loose
         \/ Fails /\ UNCHANGED bonus /\ loose' = loose \cup {u}
      /\ UNCHANGED <<used, date, read, played>> /\ QuotaOnly

----------------------------------------------------------------------------
(* Joining a tournament.                                                   *)

EntryOnly == UNCHANGED <<today, quotaVars, clientVars>>

\* Entries of t that have been checked and are not yet among its participants.
Entering(t) ==
  {e \in Entries : EntryTo[e] = t /\ at[e] \in {"coins", "pay", "push"}}

\* Wrong: nobody looks whether the tournament is full.
EntryFind_Full(e) ==
  LET t == EntryTo[e]
  IN  /\ at[e] = "idle" /\ Works
      /\ IF \E x \in entered[t] : Entrant[x] = Entrant[e]
           THEN CallTo(e, "refused") /\ UNCHANGED rushed
           ELSE /\ CallTo(e, IF Fee[t] > 0 THEN "coins" ELSE "push")
                /\ rushed' = rushed \cup {s \in {t} : Entering(s) # {}}
      /\ UNCHANGED <<coins, entered, paid, stranded, spree>> /\ EntryOnly

\* Wrong: subscribers enter for free.
EntryFind_FreeEntry(e) ==
  LET t == EntryTo[e]
  IN  /\ at[e] = "idle" /\ Works
      /\ IF Cardinality(entered[t]) >= Places[t]
           THEN CallTo(e, "refused") /\ UNCHANGED rushed
           ELSE /\ CallTo(e, IF Entrant[e] \in Subscribers THEN "push" ELSE "coins")
                /\ rushed' = rushed \cup {s \in {t} : Entering(s) # {}}
      /\ UNCHANGED <<coins, entered, paid, stranded, spree>> /\ EntryOnly

\* The tournament is full, the user is in it already, or it is for
\* subscribers and he is none; an error refuses too.
EntryFind(e) ==
  LET t == EntryTo[e]
      open == /\ Cardinality(entered[t]) < Places[t]
              /\ \A x \in entered[t] : Entrant[x] # Entrant[e]
              /\ t \in PremiumOnly => Entrant[e] \in Subscribers
  IN  /\ at[e] = "idle"
      /\ \/ /\ Works /\ open
            /\ CallTo(e, IF Fee[t] > 0 THEN "coins" ELSE "push")
            /\ rushed' = rushed \cup {s \in {t} : Entering(s) # {}}
         \/ Works /\ ~open /\ CallTo(e, "refused") /\ UNCHANGED rushed
         \/ Fails /\ CallTo(e, "refused") /\ UNCHANGED rushed
      /\ UNCHANGED <<coins, entered, paid, stranded, spree>> /\ EntryOnly

\* u, if an entry of u has seen his coins and not yet taken the fee.
MidPayment(u) == {v \in {u} : \E e \in Entries : Entrant[e] = v /\ at[e] = "pay"}

\* Wrong: the price is not looked at.
EntryCoins_NoCheck(e) ==
  /\ at[e] = "coins" /\ Works /\ CallTo(e, "pay")
  /\ spree' = spree \cup MidPayment(Entrant[e])
  /\ UNCHANGED <<coins, entered, paid, stranded, rushed>> /\ EntryOnly

\* The user's coins, 0 if the look-up fails.
EntryCoins(e) ==
  LET enough == coins[Entrant[e]] >= Fee[EntryTo[e]]
  IN  /\ at[e] = "coins"
      /\ \/ /\ Works /\ enough /\ CallTo(e, "pay")
            /\ spree' = spree \cup MidPayment(Entrant[e])
         \/ Works /\ ~enough /\ CallTo(e, "refused") /\ UNCHANGED spree
         \/ Fails /\ CallTo(e, "refused") /\ UNCHANGED spree
      /\ UNCHANGED <<coins, entered, paid, stranded, rushed>> /\ EntryOnly

\* The fee is taken; an error is ignored, and the entry goes on without.
EntryPay(e) ==
  /\ at[e] = "pay" /\ CallTo(e, "push")
  /\ \/ /\ Works \/ Fails
        /\ coins' = [coins EXCEPT ![Entrant[e]] = @ - Fee[EntryTo[e]]]
        /\ paid' = paid \cup {e} /\ UNCHANGED stranded
     \/ Fails /\ UNCHANGED <<coins, paid>> /\ stranded' = stranded \cup {e}
  /\ UNCHANGED <<entered, rushed, spree>> /\ EntryOnly

\* The user is pushed, whoever is there by now.  Nobody gives the fee back.
EntryPush(e) ==
  LET join == /\ entered' = [entered EXCEPT ![EntryTo[e]] = @ \cup {e}]
              /\ UNCHANGED stranded
  IN  /\ at[e] = "push"
      /\ \/ Works /\ CallTo(e, "ok") /\ join
         \/ Fails /\ CallTo(e, "refused") /\ join
         \/ /\ Fails /\ CallTo(e, "refused") /\ UNCHANGED entered
            /\ stranded' = stranded \cup {e}
      /\ UNCHANGED <<coins, paid, rushed, spree>> /\ EntryOnly

----------------------------------------------------------------------------
(* The client, and POST /user/stats.                                       *)

ClientOnly == UNCHANGED <<today, used, date, read, played, entryVars>>

\* A daily or referral reward is added to the client's copies.
Gift(u) ==
  /\ gifts < MaxGifts /\ gifts' = gifts + 1
  /\ myCoins' = [myCoins EXCEPT ![u] = @ + 1]
  /\ myBonus' = [myBonus EXCEPT ![u] = @ + 1]
  /\ UNCHANGED <<at, bonus, loose, sent, faults>> /\ ClientOnly

\* consumeDailyQuiz: the match starts, and the client too uses up a game.
Consume(g) ==
  LET u == Player[g]
  IN  /\ at[g] = "admitted" /\ CallTo(g, "counted")
      /\ myBonus' = [myBonus EXCEPT ![u] =
                       IF u \notin Subscribers /\ @ > 0 THEN @ - 1 ELSE @]
      /\ UNCHANGED <<bonus, loose, myCoins, sent, gifts, faults>> /\ ClientOnly

\* GET /user/stats: the higher number of coins, the server's bonus games.  A
\* look-up that fails is answered like one that finds zeros.
Sync(u) ==
  /\ \/ /\ Works
        /\ myCoins' = [myCoins EXCEPT ![u] = IF coins[u] > @ THEN coins[u] ELSE @]
        /\ myBonus' = [myBonus EXCEPT ![u] = bonus[u]]
     \/ Fails /\ myBonus' = [myBonus EXCEPT ![u] = 0] /\ UNCHANGED myCoins
  /\ UNCHANGED <<at, bonus, loose, sent, gifts>> /\ ClientOnly

\* Nothing waits for the answer, so that pushes may overtake each other.
PushSend(p) ==
  /\ at[p] = "idle" /\ CallTo(p, "sent")
  /\ sent' = [sent EXCEPT ![p] = [coins |-> myCoins[Pusher[p]],
                                  bonus |-> myBonus[Pusher[p]]]]
  /\ UNCHANGED <<bonus, loose, myCoins, myBonus, gifts, faults>> /\ ClientOnly

\* Coins by $max, bonus games by $set; or the push is lost.
PushApply(p) ==
  LET u == Pusher[p]
  IN  /\ at[p] = "sent" /\ CallTo(p, "ok")
      /\ \/ /\ Works
            /\ coins' = [coins EXCEPT ![u] =
                           IF sent[p].coins > @ THEN sent[p].coins ELSE @]
            /\ bonus' = [bonus EXCEPT ![u] = sent[p].bonus]
            /\ loose' = loose \cup MidGame(u)
         \/ Fails /\ UNCHANGED <<coins, bonus, loose>>
      /\ UNCHANGED <<today, used, date, read, played, entered, paid, stranded,
                     rushed, spree, clientVars>>

----------------------------------------------------------------------------
(* The environment.                                                        *)

Midnight ==
  /\ today < LastDay /\ today' = today + 1
  /\ UNCHANGED <<at, quotaVars, entryVars, clientVars, faults>>

\* matchmaking-service restarts: the calls in progress end where they are.
Restart ==
  /\ Fails
  /\ at' = [c \in Calls |->
              IF at[c] \in {"free", "bonus", "coins", "pay", "push", "sent"}
                THEN "refused" ELSE at[c]]
  /\ stranded' = stranded \cup {e \in Entries : at[e] = "push"}
  /\ UNCHANGED <<today, quotaVars, coins, entered, paid, rushed, spree,
                 clientVars>>

GameStep(g)  == QuotaRead(g) \/ QuotaFree(g) \/ QuotaBonus(g) \/ Consume(g)
EntryStep(e) == EntryFind(e) \/ EntryCoins(e) \/ EntryPay(e) \/ EntryPush(e)
PushStep(p)  == PushSend(p) \/ PushApply(p)

Next ==
  \/ \E g \in Games : GameStep(g)
  \/ \E e \in Entries : EntryStep(e)
  \/ \E p \in Pushes : PushStep(p)
  \/ \E u \in Users : Gift(u) \/ Sync(u)
  \/ Midnight
  \/ Restart

Spec == Init /\ [][Next]_vars

----------------------------------------------------------------------------
(* What holds.                                                             *)

\* A free user plays no more than Free counted games a day and never owes a
\* bonus game, whatever midnight falls between, unless his joins overlapped
\* with each other or with a push, or a command failed
\* (matchmaking.go:494-537, user_stats.go:108-137).
QuotaHeld ==
  \A u \in Users \ loose :
    /\ \A d \in Days : played[u][d] <= Free
    /\ bonus[u] >= 0

\* Only entries that overlap overfill a tournament or put a user into it
\* twice (tournament.go:173-221).
TournamentHeld ==
  \A t \in Tournaments \ rushed :
    /\ Cardinality(entered[t]) <= Places[t]
    /\ \A x, y \in entered[t] : Entrant[x] = Entrant[y] => x = y

\* A fee and a place go together, unless a failed command or a restart came
\* between: who is in has paid, and who has paid gets in
\* (tournament.go:205-224).
FeeBuysPlace ==
  \A e \in Entries :
    /\ e \in entered[EntryTo[e]] /\ Fee[EntryTo[e]] > 0 => e \in paid \cup stranded
    /\ e \in paid => \/ e \in entered[EntryTo[e]] \cup stranded
                     \/ at[e] = "push"

\* Nobody's coins become negative unless he enters two tournaments at once
\* (tournament.go:205-214).
CoinsHeld == \A u \in Users \ spree : coins[u] >= 0
=============================================================================
