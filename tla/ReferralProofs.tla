--------------------------- MODULE ReferralProofs ---------------------------
(***************************************************************************)
(* Proofs about Referral, for any users, calls, cap and bounds, and about  *)
(* Accounts, where the codes come from, for any calls, accounts and codes. *)
(***************************************************************************)
EXTENDS Referral, Accounts, FiniteSetTheorems, TLAPS

Places == Applying \cup {"idle", "pay", "ok", "refused"}

----------------------------------------------------------------------------
(* Types.                                                                  *)

LEMMA TypeInit == Init => TypeOK
BY ReferralAssumption DEF Init, TypeOK

LEMMA BoundType ==
  ASSUME TypeOK, Works \/ Fails
  PROVE  faults' \in 0..MaxFaults /\ restarts' \in 0..MaxRestarts
BY ReferralAssumption DEF TypeOK, Works, Fails, boundVars

LEMMA CallType ==
  ASSUME TypeOK, NEW c \in Calls, NEW place \in Places, CallTo(c, place)
  PROVE  /\ at' \in [Calls -> Places] /\ at'[c] = place
         /\ \A d \in Calls : d # c => at'[d] = at[d]
BY DEF CallTo, TypeOK, Places

LEMMA RewardType ==
  ASSUME TypeOK, NEW u \in Users, NEW amount \in Nat, Reward(u, amount)
  PROVE  /\ pending' \in [Users -> Nat] /\ granted' \in [Users -> Nat]
         /\ torn' \subseteq Users
         /\ pending'[u] = pending[u] + amount /\ granted'[u] = granted[u] + amount
         /\ \A v \in Users \ {u} :
              pending'[v] = pending[v] /\ granted'[v] = granted[v]
BY DEF Reward, MidClaim, TypeOK

\* The code of a call past the check is that of another user.
Aimed == \A a \in Applies :
           at[a] \in {"event", "referee", "cleanup", "referrer"} =>
             Referrer[a] \in Users

LEMMA ApplyType ==
  ASSUME TypeOK, Aimed, NEW a \in Applies, ApplyStep(a)
  PROVE  TypeOK'
<1>0. /\ a \in Calls /\ Referee[a] \in Users /\ Referrer[a] \in Users \cup {NoUser}
      /\ {"code", "event", "referee", "cleanup", "referrer", "ok", "refused"}
           \subseteq Places
  BY ReferralAssumption DEF Calls, Places, Applying
<1> USE DEF userVars, historyVars, boundVars
<1>1. CASE ReadReferee(a)
  <2>1. at' \in [Calls -> Places]
    BY <1>0, <1>1, CallType DEF ReadReferee
  <2> QED BY <1>1, <2>1, BoundType DEF ReadReferee, TypeOK, Places
<1>2. CASE ReadReferrer(a)
  <2>1. at' \in [Calls -> Places]
    BY <1>0, <1>2, CallType DEF ReadReferrer
  <2>2. crowded' \subseteq Users
    BY <1>0, <1>2 DEF ReadReferrer, TypeOK
  <2> QED BY <1>2, <2>1, <2>2, BoundType DEF ReadReferrer, TypeOK, Places
<1>3. CASE InsertEvent(a)
  <2>1. at' \in [Calls -> Places]
    BY <1>0, <1>3, CallType DEF InsertEvent
  <2> QED BY <1>3, <2>1, BoundType DEF InsertEvent, TypeOK, Places
<1>4. CASE RewardReferee(a)
  <2>1. at' \in [Calls -> Places]
    BY <1>0, <1>4, CallType DEF RewardReferee
  <2>2. /\ pending' \in [Users -> Nat] /\ granted' \in [Users -> Nat]
        /\ torn' \subseteq Users
    BY <1>0, <1>4, RewardType DEF RewardReferee, RefereeReward, NoReward, TypeOK
  <2>3. /\ referredBy' \in [Users -> Users \cup {NoUser}]
        /\ rewarded' \subseteq Applies /\ stranded' \subseteq Applies
    BY <1>0, <1>4 DEF RewardReferee, TypeOK
  <2> QED BY <1>4, <2>1, <2>2, <2>3, BoundType DEF RewardReferee, TypeOK, Places
<1>5. CASE DeleteEvent(a)
  <2>1. at' \in [Calls -> Places]
    BY <1>0, <1>5, CallType DEF DeleteEvent
  <2>2. undone' \subseteq Users
    BY <1>0, <1>5 DEF DeleteEvent, TypeOK
  <2> QED BY <1>5, <2>1, <2>2, BoundType DEF DeleteEvent, TypeOK, Places
<1>6. CASE RewardReferrer(a)
  <2>0. Referrer[a] \in Users
    BY <1>6 DEF Aimed, RewardReferrer
  <2>1. at' \in [Calls -> Places]
    BY <1>0, <1>6, CallType DEF RewardReferrer
  <2>2. /\ pending' \in [Users -> Nat] /\ granted' \in [Users -> Nat]
        /\ torn' \subseteq Users
    BY <2>0, <1>6, RewardType DEF RewardReferrer, ReferrerReward, NoReward, TypeOK
  <2>3. /\ count' \in [Users -> Nat]
        /\ credited' \subseteq Applies /\ stranded' \subseteq Applies
    BY <1>0, <2>0, <1>6 DEF RewardReferrer, TypeOK
  <2> QED BY <1>6, <2>1, <2>2, <2>3, BoundType DEF RewardReferrer, TypeOK, Places
<1> QED BY <1>1, <1>2, <1>3, <1>4, <1>5, <1>6 DEF ApplyStep

LEMMA ClaimType ==
  ASSUME TypeOK, NEW c \in Claims, ClaimStep(c)
  PROVE  TypeOK'
<1>0. /\ c \in Calls /\ Claimant[c] \in Users
      /\ {"pay", "ok", "refused"} \subseteq Places
  BY ReferralAssumption DEF Calls, Places
<1> USE DEF userVars, historyVars, boundVars
<1>1. CASE ReadPending(c)
  <2>1. at' \in [Calls -> Places]
    BY <1>0, <1>1, CallType DEF ReadPending
  <2>2. copy' \in [Claims -> Nat]
    BY <1>0, <1>1 DEF ReadPending, TypeOK
  <2> QED BY <1>1, <2>1, <2>2, BoundType DEF ReadPending, TypeOK, Places
<1>2. CASE PayClaim(c)
  <2>1. at' \in [Calls -> Places]
    BY <1>0, <1>2, CallType DEF PayClaim
  <2>2. total' \in [Users -> Nat] /\ pending' \in [Users -> Nat]
    BY <1>0, <1>2 DEF PayClaim, TypeOK
  <2>3. torn' \subseteq Users
    BY <1>0, <1>2 DEF PayClaim, MidClaim, TypeOK
  <2> QED BY <1>2, <2>1, <2>2, <2>3, BoundType DEF PayClaim, TypeOK, Places
<1> QED BY <1>1, <1>2 DEF ClaimStep

LEMMA TypeStep == TypeOK /\ Aimed /\ [Next]_vars => TypeOK'
<1> SUFFICES ASSUME TypeOK, Aimed, [Next]_vars
             PROVE  TypeOK'
  OBVIOUS
<1>1. CASE Restart
  <2>1. at' \in [Calls -> Places]
    BY <1>1 DEF Restart, TypeOK, Places
  <2> QED
    BY <1>1, <2>1, ReferralAssumption DEF Restart, TypeOK, Places, userVars
<1>2. CASE UNCHANGED vars
  BY <1>2 DEF TypeOK, vars, userVars, historyVars, boundVars
<1> QED BY <1>1, <1>2, ApplyType, ClaimType DEF Next

\* What a step of one call does to the places of the others.
LEMMA OthersStay ==
  ASSUME TypeOK, NEW c \in Calls,
         (c \in Applies /\ ApplyStep(c)) \/ (c \in Claims /\ ClaimStep(c))
  PROVE  \A d \in Calls : d # c => at'[d] = at[d]
<1>1. CASE c \in Applies /\ ApplyStep(c)
  BY <1>1 DEF ApplyStep, ReadReferee, ReadReferrer, InsertEvent, RewardReferee,
              DeleteEvent, RewardReferrer, CallTo, TypeOK
<1>2. CASE c \in Claims /\ ClaimStep(c)
  BY <1>2 DEF ClaimStep, ReadPending, PayClaim, CallTo, TypeOK
<1> QED BY <1>1, <1>2

----------------------------------------------------------------------------
(* Referrals: what the place of a call says of the event it inserted.      *)

Uncleared == {"referee", "cleanup"}

InEvent ==
  /\ \A a \in Applies : at[a] \in Uncleared => a \in event
  /\ \A a \in Applies : at[a] = "referrer" => a \in rewarded

\* At most one document per referee, and one for each reward but the undone.
EventsUnique ==
  /\ \A a, b \in event : Referee[a] = Referee[b] => a = b
  /\ \A a \in rewarded : a \in event \/ Referee[a] \in undone

Whole == ReferralIsWhole /\ InEvent /\ EventsUnique /\ RefereeRewardedOnce

LEMMA WholeInit == Init => Whole
BY DEF Init, Whole, ReferralIsWhole, InEvent, EventsUnique,
       RefereeRewardedOnce, Uncleared, Calls

LEMMA WholeStep ==
  ASSUME TypeOK, Whole, [Next]_vars
  PROVE  Whole'
<1> USE DEF Whole, ReferralIsWhole, InEvent, EventsUnique,
            RefereeRewardedOnce, Uncleared
<1>0. event \subseteq Applies /\ rewarded \subseteq Applies
  BY DEF TypeOK
<1>1. ASSUME NEW a \in Applies, ApplyStep(a)
      PROVE  Whole'
  <2>0. a \in Calls /\ Applies \subseteq Calls
    BY DEF Calls
  <2>1. \A b \in Applies : b # a => at'[b] = at[b]
    BY <1>1, <2>0, OthersStay
  <2> USE <1>0, <2>0, <2>1 DEF CallTo, userVars, historyVars
  <2>2. CASE ReadReferee(a) \/ ReadReferrer(a)
    <3>1. /\ at[a] \in {"idle", "code"}
          /\ at'[a] \in {"code", "event", "refused"}
      BY <2>2 DEF ReadReferee, ReadReferrer, TypeOK
    <3>2. UNCHANGED <<event, rewarded, credited, stranded, undone>>
      BY <2>2 DEF ReadReferee, ReadReferrer
    <3> QED BY <3>1, <3>2
  <2>3. CASE InsertEvent(a)
    <3>1. at[a] = "event" /\ UNCHANGED <<rewarded, credited, undone>>
      BY <2>3 DEF InsertEvent
    <3>2. \/ /\ at'[a] = "referee" /\ event' = event \cup {a}
             /\ stranded' = stranded
             /\ \A e \in event : Referee[e] # Referee[a]
          \/ at'[a] = "refused" /\ event' = event /\ stranded' = stranded
          \/ /\ at'[a] = "refused" /\ event' = event \cup {a}
             /\ stranded' = stranded \cup {a}
             /\ \A e \in event : Referee[e] # Referee[a]
      BY <2>3 DEF InsertEvent, TypeOK
    <3> QED BY <3>1, <3>2
  <2>4. CASE RewardReferee(a)
    <3>1. /\ at[a] = "referee" /\ UNCHANGED <<event, credited, undone>>
          /\ \/ /\ at'[a] = "referrer" /\ rewarded' = rewarded \cup {a}
                /\ stranded' = stranded
             \/ /\ at'[a] = "cleanup" /\ rewarded' = rewarded
                /\ stranded' = stranded
             \/ /\ at'[a] = "cleanup" /\ rewarded' = rewarded \cup {a}
                /\ stranded' = stranded \cup {a}
      BY <2>4 DEF RewardReferee, TypeOK
    <3>2. a \in event
      BY <3>1
    <3>3. \A b \in rewarded : Referee[b] = Referee[a] /\ b # a =>
                              Referee[a] \in undone
      BY <3>2
    <3> QED BY <3>1, <3>2, <3>3
  <2>5. CASE DeleteEvent(a)
    <3>1. /\ at[a] = "cleanup" /\ at'[a] = "refused"
          /\ UNCHANGED <<rewarded, credited>>
          /\ \/ /\ event' = event \ {a} /\ stranded' = stranded
                /\ undone' = undone \cup {Referee[e] : e \in {a} \cap rewarded}
             \/ /\ event' = event /\ undone' = undone
                /\ stranded' = stranded \cup {a}
      BY <2>5 DEF DeleteEvent, TypeOK
    <3>2. undone \subseteq undone' /\ event' \subseteq event
      BY <3>1
    <3>3. a \in rewarded => a \in event' \/ Referee[a] \in undone'
      BY <3>1
    <3>4. \A b \in rewarded' : b \in event' \/ Referee[b] \in undone'
      BY <3>1, <3>2, <3>3
    <3>5. ReferralIsWhole' /\ InEvent'
      BY <3>1
    <3> QED BY <3>1, <3>2, <3>4, <3>5
  <2>6. CASE RewardReferrer(a)
    <3>1. /\ at[a] = "referrer" /\ at'[a] = "ok"
          /\ UNCHANGED <<event, rewarded, undone>>
          /\ \/ credited' = credited \cup {a} /\ stranded' = stranded
             \/ credited' = credited /\ stranded' = stranded \cup {a}
      BY <2>6 DEF RewardReferrer, TypeOK
    <3> QED BY <3>1
  <2> QED BY <1>1, <2>2, <2>3, <2>4, <2>5, <2>6 DEF ApplyStep
<1>2. ASSUME NEW c \in Claims, ClaimStep(c)
      PROVE  Whole'
  <2>1. UNCHANGED <<event, rewarded, credited, stranded, undone>>
    BY <1>2 DEF ClaimStep, ReadPending, PayClaim, historyVars
  <2>2. \A a \in Applies : at'[a] = at[a]
    BY <1>2, OthersStay, ReferralAssumption DEF Calls
  <2> QED BY <1>0, <2>1, <2>2
<1>3. CASE Restart
  <2>1. /\ UNCHANGED <<event, rewarded, credited, undone>>
        /\ stranded \subseteq stranded'
        /\ \A a \in Applies :
             \/ /\ at[a] \in {"referee", "cleanup", "referrer"}
                /\ a \in stranded' /\ at'[a] = "refused"
             \/ at'[a] \notin {"referee", "cleanup", "referrer"}
    BY <1>3 DEF Restart, Calls, TypeOK, Applying
  <2>2. \A a \in Applies : at[a] \in {"referee", "cleanup", "referrer"} =>
                           a \in stranded'
    BY <1>3 DEF Restart
  <2> QED BY <1>0, <2>1, <2>2
<1>4. CASE UNCHANGED vars
  BY <1>0, <1>4 DEF vars, historyVars
<1> QED BY <1>1, <1>2, <1>3, <1>4 DEF Next

----------------------------------------------------------------------------
(* The cap: a code whose calls have not overlapped has room for the one    *)
(* that is past the check.                                                 *)

Room ==
  \A u \in Users \ crowded :
    /\ count[u] <= Cap
    /\ \A a \in Counting(u) : count[u] < Cap
    /\ \A a, b \in Counting(u) : a = b

LEMMA RoomInit == Init => Room /\ Aimed
BY ReferralAssumption DEF Init, Room, Aimed, Counting, Calls

LEMMA AimedStep ==
  ASSUME TypeOK, Aimed, [Next]_vars
  PROVE  Aimed'
<1>0. Applies \subseteq Calls
  BY DEF Calls
<1>1. ASSUME NEW a \in Applies, ApplyStep(a)
      PROVE  Aimed'
  <2>1. \A b \in Applies : b # a => at'[b] = at[b]
    BY <1>0, <1>1, OthersStay
  <2>2. at'[a] = "event" => Referrer[a] \in Users
    BY <1>0, <1>1, ReferralAssumption
    DEF ApplyStep, ReadReferee, ReadReferrer, InsertEvent, RewardReferee,
        DeleteEvent, RewardReferrer, CallTo, TypeOK
  <2>3. at'[a] \in {"referee", "cleanup", "referrer"} =>
          at[a] \in {"event", "referee", "cleanup", "referrer"}
    BY <1>0, <1>1
    DEF ApplyStep, ReadReferee, ReadReferrer, InsertEvent, RewardReferee,
        DeleteEvent, RewardReferrer, CallTo, TypeOK
  <2> QED BY <2>1, <2>2, <2>3 DEF Aimed
<1>2. ASSUME NEW c \in Claims, ClaimStep(c)
      PROVE  Aimed'
  BY <1>0, <1>2, OthersStay, ReferralAssumption DEF Aimed, Calls
<1>3. CASE Restart
  BY <1>0, <1>3 DEF Restart, Aimed, TypeOK
<1>4. CASE UNCHANGED vars
  BY <1>4 DEF vars, Aimed
<1> QED BY <1>1, <1>2, <1>3, <1>4 DEF Next

Counts == {"event", "referee", "cleanup", "referrer"}

\* A step that leaves the counts alone, and brings no call past the check.
LEMMA RoomKept ==
  ASSUME Room, UNCHANGED <<count, crowded>>,
         \A a \in Applies : at'[a] \in Counts => at[a] \in Counts
  PROVE  Room'
<1>1. \A u \in Users : Counting(u)' \subseteq Counting(u)
  BY DEF Counting, Counts
<1> QED BY <1>1 DEF Room

LEMMA RoomStep ==
  ASSUME TypeOK, Aimed, Room, [Next]_vars
  PROVE  Room'
<1>0. Applies \subseteq Calls
  BY DEF Calls
<1> USE DEF historyVars, userVars
<1>1. ASSUME NEW a \in Applies, ApplyStep(a)
      PROVE  Room'
  <2>0. a \in Calls /\ \A b \in Applies : b # a => at'[b] = at[b]
    BY <1>0, <1>1, OthersStay
  <2>1. CASE ReadReferee(a)
    <3>1. at'[a] \notin Counts /\ UNCHANGED <<count, crowded>>
      BY <2>0, <2>1 DEF ReadReferee, CallTo, Counts, TypeOK
    <3> QED BY <2>0, <3>1, RoomKept
  <2>2. CASE InsertEvent(a) \/ RewardReferee(a) \/ DeleteEvent(a)
    <3>1. at[a] \in Counts /\ UNCHANGED <<count, crowded>>
      BY <2>2 DEF InsertEvent, RewardReferee, DeleteEvent, Counts
    <3> QED BY <2>0, <3>1, RoomKept
  <2>3. CASE ReadReferrer(a)
    <3>1. CASE at'[a] = "event"
      <4>1. /\ Referrer[a] \in Users /\ count[Referrer[a]] < Cap
            /\ crowded' = crowded \cup
                            {v \in {Referrer[a]} : Counting(v) # {}}
            /\ UNCHANGED count /\ at[a] = "code"
        BY <2>0, <2>3, <3>1, ReferralAssumption
        DEF ReadReferrer, CallTo, TypeOK
      <4>2. ASSUME NEW u \in Users \ crowded'
            PROVE  /\ count[u] <= Cap
                   /\ \A b \in Counting(u)' : count[u] < Cap
                   /\ \A b, d \in Counting(u)' : b = d
        <5>1. u \in Users \ crowded
          BY <4>1, <4>2
        <5>2. CASE u = Referrer[a]
          <6>1. Counting(u) = {}
            BY <4>1, <4>2, <5>2
          <6>2. Counting(u)' \subseteq {a}
            BY <2>0, <6>1 DEF Counting
          <6> QED BY <4>1, <5>1, <5>2, <6>2 DEF Room
        <5>3. CASE u # Referrer[a]
          <6>1. Counting(u)' \subseteq Counting(u)
            BY <2>0, <5>3 DEF Counting
          <6> QED BY <5>1, <6>1 DEF Room
        <5> QED BY <5>2, <5>3
      <4> QED BY <4>1, <4>2 DEF Room
    <3>2. CASE at'[a] # "event"
      <4>1. at'[a] \notin Counts /\ UNCHANGED <<count, crowded>>
        BY <2>0, <2>3, <3>2 DEF ReadReferrer, CallTo, Counts, TypeOK
      <4> QED BY <2>0, <4>1, RoomKept
    <3> QED BY <3>1, <3>2
  <2>4. CASE RewardReferrer(a)
    <3>1. /\ at[a] = "referrer" /\ at'[a] = "ok" /\ UNCHANGED crowded
          /\ \/ count' = [count EXCEPT ![Referrer[a]] = @ + 1]
             \/ UNCHANGED count
      BY <2>0, <2>4 DEF RewardReferrer, CallTo, TypeOK
    <3>2. \A u \in Users : /\ Counting(u)' \subseteq Counting(u)
                           /\ a \notin Counting(u)'
      BY <2>0, <3>1 DEF Counting
    <3>3. Referrer[a] \in Users /\ a \in Counting(Referrer[a])
      BY <3>1 DEF Aimed, Counting
    <3>4. ASSUME NEW u \in Users \ crowded
          PROVE  /\ count'[u] <= Cap
                 /\ \A b \in Counting(u)' : count'[u] < Cap
                 /\ \A b, d \in Counting(u)' : b = d
      <4>1. CASE u = Referrer[a]
        <5>1. Counting(u)' = {}
          BY <3>2, <3>3, <3>4, <4>1 DEF Room
        <5>2. count[u] \in Nat /\ count[u] < Cap
          BY <3>3, <3>4, <4>1 DEF Room, TypeOK
        <5>3. count'[u] \in {count[u], count[u] + 1}
          BY <3>1, <3>4, <4>1 DEF TypeOK
        <5>4. count'[u] <= Cap
          BY <5>2, <5>3, ReferralAssumption
        <5> QED BY <5>1, <5>4
      <4>2. CASE u # Referrer[a]
        <5>1. count'[u] = count[u]
          BY <3>1, <3>4, <4>2 DEF TypeOK
        <5> QED BY <3>2, <3>4, <5>1 DEF Room
      <4> QED BY <4>1, <4>2
    <3> QED BY <3>1, <3>4 DEF Room
  <2> QED BY <1>1, <2>1, <2>2, <2>3, <2>4 DEF ApplyStep
<1>2. ASSUME NEW c \in Claims, ClaimStep(c)
      PROVE  Room'
  <2>1. UNCHANGED <<count, crowded>>
    BY <1>2 DEF ClaimStep, ReadPending, PayClaim
  <2>2. \A a \in Applies : at'[a] = at[a]
    BY <1>2, OthersStay, ReferralAssumption DEF Calls
  <2> QED BY <2>1, <2>2, RoomKept
<1>3. CASE Restart
  <2>1. UNCHANGED <<count, crowded>>
    BY <1>3 DEF Restart
  <2>2. \A a \in Applies : at'[a] \in Counts => at[a] \in Counts
    BY <1>0, <1>3 DEF Restart, Counts
  <2> QED BY <2>1, <2>2, RoomKept
<1>4. CASE UNCHANGED vars
  BY <1>4, RoomKept DEF vars
<1> QED BY <1>1, <1>2, <1>3, <1>4 DEF Next

----------------------------------------------------------------------------
(* The books: a claim that nothing has overlapped holds what is pending.   *)

Books ==
  \A u \in Users \ torn :
    /\ total[u] + pending[u] = granted[u]
    /\ \A c \in Claims :
         Claimant[c] = u /\ at[c] = "pay" => copy[c] = pending[u]

LEMMA BooksInit == Init => Books
<1> SUFFICES ASSUME Init
             PROVE  Books
  OBVIOUS
<1>1. \A c \in Claims : at[c] # "pay"
  BY DEF Init, Calls
<1>2. ASSUME NEW u \in Users
      PROVE  total[u] + pending[u] = granted[u]
  <2>1. total[u] = 0 /\ pending[u] = 0 /\ granted[u] = 0
    BY DEF Init
  <2>2. 0 + 0 = 0
    OBVIOUS
  <2> QED BY <2>1, <2>2
<1> QED BY <1>1, <1>2 DEF Books

\* A step that touches neither the books nor a claim.
LEMMA BooksKept ==
  ASSUME Books, UNCHANGED <<total, pending, granted, torn, copy>>,
         \A c \in Claims : at'[c] = "pay" => at[c] = "pay"
  PROVE  Books'
BY DEF Books

LEMMA BooksReward ==
  ASSUME TypeOK, Books, NEW v \in Users, NEW amount \in Nat,
         Reward(v, amount), UNCHANGED <<total, copy>>,
         \A c \in Claims : at'[c] = at[c]
  PROVE  Books'
<1>1. ASSUME NEW u \in Users, u \notin torn'
      PROVE  /\ total'[u] + pending'[u] = granted'[u]
             /\ \A c \in Claims :
                  Claimant[c] = u /\ at'[c] = "pay" => copy'[c] = pending'[u]
  <2>1. u \notin torn
    BY <1>1 DEF Reward
  <2>2. CASE u = v
    <3>1. \A c \in Claims : ~(Claimant[c] = u /\ at'[c] = "pay")
      BY <1>1, <2>2 DEF Reward, MidClaim
    <3>2. total[u] + pending[u] = granted[u]
      BY <1>1, <2>1 DEF Books
    <3>3. /\ total[u] \in Nat /\ pending[u] \in Nat /\ granted[u] \in Nat
          /\ pending'[u] = pending[u] + amount
          /\ granted'[u] = granted[u] + amount /\ total'[u] = total[u]
      BY <1>1, <2>2, RewardType DEF TypeOK
    <3> QED BY <3>1, <3>2, <3>3
  <2>3. CASE u # v
    <3>1. pending'[u] = pending[u] /\ granted'[u] = granted[u]
      BY <2>3, <1>1, RewardType
    <3> QED BY <1>1, <2>1, <3>1 DEF Books
  <2> QED BY <2>2, <2>3
<1> QED BY <1>1 DEF Books

LEMMA BooksStep ==
  ASSUME TypeOK, Aimed, Books, [Next]_vars
  PROVE  Books'
<1>0. Applies \subseteq Calls /\ Claims \subseteq Calls
  BY DEF Calls
<1> USE DEF historyVars, userVars
<1>1. ASSUME NEW a \in Applies, ApplyStep(a)
      PROVE  Books'
  <2>1. \A c \in Claims : at'[c] = at[c]
    BY <1>0, <1>1, OthersStay, ReferralAssumption
  <2>2. UNCHANGED <<total, copy>>
    BY <1>1 DEF ApplyStep, ReadReferee, ReadReferrer, InsertEvent,
                RewardReferee, DeleteEvent, RewardReferrer
  <2>3. \/ UNCHANGED <<pending, granted, torn>>
        \/ Reward(Referee[a], RefereeReward)
        \/ at[a] = "referrer" /\ Reward(Referrer[a], ReferrerReward)
    BY <1>1 DEF ApplyStep, ReadReferee, ReadReferrer, InsertEvent,
                RewardReferee, DeleteEvent, RewardReferrer, NoReward
  <2>4. Referee[a] \in Users /\ (at[a] = "referrer" => Referrer[a] \in Users)
    BY ReferralAssumption DEF Aimed
  <2>5. CASE UNCHANGED <<pending, granted, torn>>
    BY <2>1, <2>2, <2>5, BooksKept
  <2>6. RefereeReward \in Nat /\ ReferrerReward \in Nat
    BY DEF RefereeReward, ReferrerReward
  <2> QED BY <2>1, <2>2, <2>3, <2>4, <2>5, <2>6, BooksReward
<1>2. ASSUME NEW c \in Claims, ClaimStep(c)
      PROVE  Books'
  <2>0. Claimant[c] \in Users /\ \A d \in Claims : d # c => at'[d] = at[d]
    BY <1>0, <1>2, OthersStay, ReferralAssumption
  <2>1. CASE ReadPending(c)
    <3>1. /\ UNCHANGED <<total, pending, granted, torn>>
          /\ \A d \in Claims : d # c => copy'[d] = copy[d]
          /\ at'[c] = "pay" => copy'[c] = pending[Claimant[c]]
      BY <1>0, <2>1 DEF ReadPending, CallTo, TypeOK
    <3> QED BY <2>0, <3>1 DEF Books
  <2>2. CASE PayClaim(c) /\ UNCHANGED <<total, pending, torn>>
    <3>1. at'[c] # "pay" /\ UNCHANGED <<granted, copy>>
      BY <1>0, <2>2 DEF PayClaim, CallTo, TypeOK
    <3> QED BY <2>0, <2>2, <3>1, BooksKept
  <2>3. CASE PayClaim(c) /\ ~UNCHANGED <<total, pending, torn>>
    <3>1. /\ at[c] = "pay" /\ at'[c] # "pay" /\ UNCHANGED <<granted, copy>>
          /\ total' = [total EXCEPT ![Claimant[c]] = @ + copy[c]]
          /\ pending' = [pending EXCEPT ![Claimant[c]] = 0]
          /\ torn' = torn \cup MidClaim(Claimant[c], Claims \ {c})
      BY <1>0, <2>3 DEF PayClaim, CallTo, TypeOK
    <3>2. ASSUME NEW u \in Users, u \notin torn'
          PROVE  /\ total'[u] + pending'[u] = granted'[u]
                 /\ \A d \in Claims :
                      Claimant[d] = u /\ at'[d] = "pay" => copy'[d] = pending'[u]
      <4>1. u \notin torn
        BY <3>1, <3>2
      <4>2. CASE u = Claimant[c]
        <5>1. \A d \in Claims : ~(Claimant[d] = u /\ at'[d] = "pay")
          BY <2>0, <3>1, <3>2, <4>2 DEF MidClaim
        <5>2. total[u] + pending[u] = granted[u] /\ copy[c] = pending[u]
          BY <3>1, <3>2, <4>1, <4>2 DEF Books
        <5>3. /\ total[u] \in Nat /\ pending[u] \in Nat
              /\ total'[u] = total[u] + copy[c] /\ pending'[u] = 0
              /\ granted'[u] = granted[u]
          BY <3>1, <3>2, <4>2 DEF TypeOK
        <5> QED BY <5>1, <5>2, <5>3
      <4>3. CASE u # Claimant[c]
        <5>1. /\ total'[u] = total[u] /\ pending'[u] = pending[u]
              /\ granted' = granted /\ copy' = copy
          BY <3>1, <3>2, <4>3 DEF TypeOK
        <5> QED BY <2>0, <3>1, <3>2, <4>1, <4>3, <5>1 DEF Books
      <4> QED BY <4>2, <4>3
    <3> QED BY <3>2 DEF Books
  <2> QED BY <1>2, <2>1, <2>2, <2>3 DEF ClaimStep
<1>3. CASE Restart
  <2>1. \A c \in Claims : at'[c] # "pay"
    BY <1>0, <1>3 DEF Restart, Applying
  <2> QED BY <1>3, <2>1, BooksKept DEF Restart
<1>4. CASE UNCHANGED vars
  BY <1>4, BooksKept DEF vars
<1> QED BY <1>1, <1>2, <1>3, <1>4 DEF Next

----------------------------------------------------------------------------
(* The theorems.                                                           *)

IInv == TypeOK /\ Aimed /\ Whole /\ Room /\ Books

LEMMA IInvInit == Init => IInv
BY TypeInit, WholeInit, RoomInit, BooksInit DEF IInv

LEMMA IInvStep == IInv /\ [Next]_vars => IInv'
BY TypeStep, AimedStep, WholeStep, RoomStep, BooksStep DEF IInv

LEMMA IInvHolds == Spec => []IInv
BY IInvInit, IInvStep, PTL DEF Spec

\* The variables keep their types: no overlap of claims and rewards makes a
\* counter negative (referral.go:334-358, 436-442).
THEOREM TypeCorrect == Spec => []TypeOK
<1>1. IInv => TypeOK
  BY DEF IInv
<1> QED BY <1>1, IInvHolds, PTL

\* Event, referee's reward and referrer's reward exist together, but for a
\* call in progress or cut short (referral.go:322-361).
THEOREM ReferralsAreWhole == Spec => []ReferralIsWhole
<1>1. IInv => ReferralIsWhole
  BY DEF IInv, Whole
<1> QED BY <1>1, IInvHolds, PTL

\* A user is rewarded for one code only, unless the clean-up deleted the
\* event of a reward whose reply was lost (referral.go:322-345).
THEOREM RefereesRewardedOnce == Spec => []RefereeRewardedOnce
<1>1. IInv => RefereeRewardedOnce
  BY DEF IInv, Whole
<1> QED BY <1>1, IInvHolds, PTL

\* Only overlapping calls for one code carry its owner over the cap
\* (referral.go:311-316, 352-358).
THEOREM CapHeld == Spec => []CapUnlessCrowded
<1>1. IInv => CapUnlessCrowded
  BY DEF IInv, Room, CapUnlessCrowded
<1> QED BY <1>1, IInvHolds, PTL

\* What was granted is pending or in the total, unless a claim overlapped
\* with another or with a reward (referral.go:407-445).
THEOREM BooksBalance == Spec => []BooksBalanceUnlessTorn
<1>1. IInv => BooksBalanceUnlessTorn
  BY DEF IInv, Books, BooksBalanceUnlessTorn
<1> QED BY <1>1, IInvHolds, PTL

----------------------------------------------------------------------------
(* Accounts: how a user comes by the code that others apply.               *)

\* What any step does: one call moves and records whom it meets, documents
\* are added but not taken away, and only GetCode changes one, its code.
Moves(c) ==
  /\ stage[c] \in Busy \cup {"idle"} /\ stage'[c] # "idle"
  /\ IF stage[c] = "idle" THEN Meets(c) ELSE met' = met
  /\ met \subseteq met' /\ hit \subseteq hit'
  /\ \A d \in AccountCalls \ {c} :
       /\ stage'[d] = stage[d] /\ code'[d] = code[d] /\ mine'[d] = mine[d]
       /\ d \in hit' => d \in hit
       /\ d \in Creators => name'[d] = name[d]
       /\ d \in SignIns => try'[d] = try[d]
  /\ DOMAIN user \subseteq DOMAIN user'
  /\ DOMAIN user' \subseteq DOMAIN user \cup {c}
  /\ \A i \in DOMAIN user :
       /\ user'[i].name = user[i].name /\ user'[i].google = user[i].google
       /\ user'[i].code # user[i].code =>
            c \in Lookups /\ i = mine[c] /\ user'[i].code = code[c]

\* A creator makes its document last; a call that works on a document has
\* found one.
DocumentInv ==
  /\ \A c \in Creators :
       stage[c] \in Busy \cup {"idle"} => c \notin DOMAIN user
  /\ \A s \in SignIns : stage[s] = "link" =>
       mine[s] \in DOMAIN user /\ user[mine[s]].google = Google[s]
  /\ \A l \in Lookups : stage[l] \in {"draw", "save", "ok"} =>
       mine[l] \in DOMAIN user

LEMMA AccountKinds ==
  /\ Registers \cap SignIns = {} /\ Creators \cap Lookups = {}
  /\ Registers \subseteq Creators /\ SignIns \subseteq Creators
  /\ Creators \subseteq AccountCalls /\ Lookups \subseteq AccountCalls
  /\ NoGoogle \notin Accounts
  /\ \A s \in SignIns : Google[s] \in Accounts
  /\ NoCode \notin Codes /\ EmptyCode \notin Codes
  /\ MaxFailures \in Nat
BY AccountsAssumption DEF Creators, AccountCalls, Accounts

LEMMA CandidateNames ==
  ASSUME NEW s \in SignIns
  PROVE  /\ Len(Candidates[Google[s]]) \in Nat /\ Len(Candidates[Google[s]]) >= 2
         /\ DOMAIN Candidates[Google[s]] = 1..Len(Candidates[Google[s]])
         /\ \A n \in DOMAIN Candidates[Google[s]] :
              Candidates[Google[s]][n] \in Names
<1>1. Google[s] \in Accounts
  BY AccountKinds
<1>2. /\ Candidates[Google[s]] \in
           Seq({Candidates[Google[s]][n] : n \in DOMAIN Candidates[Google[s]]})
      /\ Len(Candidates[Google[s]]) >= 2
  BY <1>1, AccountsAssumption
<1>3. \A n \in DOMAIN Candidates[Google[s]] :
        Candidates[Google[s]][n] \in Names
  BY <1>1 DEF Names
<1> QED
  BY <1>2, <1>3

LEMMA FaultType ==
  ASSUME AccountsTypeOK, NEW c \in AccountCalls, Succeeds \/ Errs(c)
  PROVE  /\ hit' \subseteq AccountCalls /\ failed' \in 0..MaxFailures
         /\ hit \subseteq hit' /\ hit' \subseteq hit \cup {c}
BY AccountsAssumption DEF Succeeds, Errs, AccountsTypeOK

AccountPlaces == Busy \cup {"idle", "ok", "taken", "error"}

LEMMA StageType ==
  ASSUME AccountsTypeOK, NEW c \in AccountCalls, NEW next \in AccountPlaces \ {"idle"},
         StageTo(c, next)
  PROVE  /\ stage' \in [AccountCalls -> AccountPlaces] /\ stage'[c] # "idle"
         /\ \A d \in AccountCalls : d # c => stage'[d] = stage[d]
BY DEF StageTo, AccountsTypeOK, AccountPlaces

LEMMA MeetType ==
  ASSUME AccountsTypeOK, NEW c \in AccountCalls, Meets(c)
  PROVE  met' \subseteq SUBSET AccountCalls /\ met \subseteq met'
BY DEF Meets, AccountsTypeOK

LEMMA FindNameStep ==
  ASSUME AccountsTypeOK, DocumentInv, NEW r \in Registers, FindName(r)
  PROVE  AccountsTypeOK' /\ Moves(r)
<1>1. r \in AccountCalls /\ {"taken", "draw", "error"} \subseteq AccountPlaces \ {"idle"}
  BY AccountKinds DEF AccountPlaces, Busy
<1>2. /\ stage' \in [AccountCalls -> AccountPlaces] /\ stage'[r] # "idle"
      /\ \A d \in AccountCalls : d # r => stage'[d] = stage[d]
  BY <1>1, StageType DEF FindName
<1>3. met' \subseteq SUBSET AccountCalls /\ met \subseteq met'
  BY <1>1, MeetType DEF FindName
<1>4. /\ hit' \subseteq AccountCalls /\ failed' \in 0..MaxFailures
      /\ hit \subseteq hit' /\ hit' \subseteq hit \cup {r}
  BY <1>1, FaultType DEF FindName
<1> QED
  BY <1>1, <1>2, <1>3, <1>4 DEF FindName, AccountsTypeOK, AccountPlaces, Moves

LEMMA FindGoogleStep ==
  ASSUME AccountsTypeOK, DocumentInv, NEW s \in SignIns, FindGoogle(s)
  PROVE  AccountsTypeOK' /\ Moves(s)
<1>1. s \in AccountCalls /\ {"ok", "email", "error"} \subseteq AccountPlaces \ {"idle"}
  BY AccountKinds DEF AccountPlaces, Busy
<1>2. /\ stage' \in [AccountCalls -> AccountPlaces] /\ stage'[s] # "idle"
      /\ \A d \in AccountCalls : d # s => stage'[d] = stage[d]
  BY <1>1, StageType DEF FindGoogle
<1>3. met' \subseteq SUBSET AccountCalls /\ met \subseteq met'
  BY <1>1, MeetType DEF FindGoogle
<1>4. /\ hit' \subseteq AccountCalls /\ failed' \in 0..MaxFailures
      /\ hit \subseteq hit' /\ hit' \subseteq hit \cup {s}
  BY <1>1, FaultType DEF FindGoogle
<1>5. /\ mine' \in [AccountCalls -> DOMAIN user \cup {Nobody}]
      /\ \A d \in AccountCalls : d # s => mine'[d] = mine[d]
  BY <1>1 DEF FindGoogle, Found, DocumentsOf, AccountsTypeOK
<1> QED
  BY <1>1, <1>2, <1>3, <1>4, <1>5
  DEF FindGoogle, AccountsTypeOK, AccountPlaces, Moves

LEMMA FindEmailStep ==
  ASSUME AccountsTypeOK, DocumentInv, NEW s \in SignIns, FindEmail(s)
  PROVE  AccountsTypeOK' /\ Moves(s)
<1>1. s \in AccountCalls /\ {"link", "count"} \subseteq AccountPlaces \ {"idle"}
  BY AccountKinds DEF AccountPlaces, Busy
<1>2. /\ stage' \in [AccountCalls -> AccountPlaces] /\ stage'[s] # "idle"
      /\ \A d \in AccountCalls : d # s => stage'[d] = stage[d]
  BY <1>1, StageType DEF FindEmail
<1>4. /\ hit' \subseteq AccountCalls /\ failed' \in 0..MaxFailures
      /\ hit \subseteq hit' /\ hit' \subseteq hit \cup {s}
  BY <1>1, FaultType DEF FindEmail
<1>5. /\ mine' \in [AccountCalls -> DOMAIN user \cup {Nobody}]
      /\ \A d \in AccountCalls : d # s => mine'[d] = mine[d]
  BY <1>1 DEF FindEmail, Found, DocumentsOf, AccountsTypeOK
<1> QED
  BY <1>1, <1>2, <1>4, <1>5
  DEF FindEmail, AccountsTypeOK, AccountPlaces, Moves, Busy

\* Link writes what the document holds already.
LEMMA LinkStep ==
  ASSUME AccountsTypeOK, DocumentInv, NEW s \in SignIns, Link(s)
  PROVE  /\ AccountsTypeOK' /\ Moves(s)
         /\ DOMAIN user' = DOMAIN user /\ \A i \in DOMAIN user : user'[i] = user[i]
<1>1. s \in AccountCalls /\ {"ok", "error"} \subseteq AccountPlaces \ {"idle"}
  BY AccountKinds DEF AccountPlaces, Busy
<1>2. /\ stage' \in [AccountCalls -> AccountPlaces] /\ stage'[s] # "idle"
      /\ \A d \in AccountCalls : d # s => stage'[d] = stage[d]
  BY <1>1, StageType DEF Link
<1>4. /\ hit' \subseteq AccountCalls /\ failed' \in 0..MaxFailures
      /\ hit \subseteq hit' /\ hit' \subseteq hit \cup {s}
  BY <1>1, FaultType DEF Link
<1>5. mine[s] \in DOMAIN user /\ user[mine[s]].google = Google[s]
  BY DEF Link, DocumentInv
<1>6. user[mine[s]] \in Document
  BY <1>5 DEF AccountsTypeOK
<1>7. user' = user \/ user' = [user EXCEPT ![mine[s]].google = Google[s]]
  BY DEF Link
<1>8. DOMAIN user' = DOMAIN user /\ \A i \in DOMAIN user : user'[i] = user[i]
  <2>1. user[mine[s]] = [user[mine[s]] EXCEPT !.google = Google[s]]
    BY <1>5, <1>6 DEF Document
  <2> QED
    BY <2>1, <1>5, <1>7
<1> QED
  BY <1>1, <1>2, <1>4, <1>8
  DEF Link, AccountsTypeOK, AccountPlaces, Moves, Busy

LEMMA CountNameStep ==
  ASSUME AccountsTypeOK, DocumentInv, NEW s \in SignIns, CountName(s)
  PROVE  AccountsTypeOK' /\ Moves(s)
<1>1. s \in AccountCalls /\ s \in Creators
      /\ {"draw", "count", "error"} \subseteq AccountPlaces \ {"idle"}
  BY AccountKinds DEF AccountPlaces, Busy
<1>2. /\ stage' \in [AccountCalls -> AccountPlaces] /\ stage'[s] # "idle"
      /\ \A d \in AccountCalls : d # s => stage'[d] = stage[d]
  BY <1>1, StageType DEF CountName
<1>4. /\ hit' \subseteq AccountCalls /\ failed' \in 0..MaxFailures
      /\ hit \subseteq hit' /\ hit' \subseteq hit \cup {s}
  BY <1>1, FaultType DEF CountName
<1>5. /\ name' \in [Creators -> Names] /\ try' \in [SignIns -> Nat]
      /\ try'[s] \in DOMAIN Candidates[Google[s]]
      /\ \A d \in Creators : d # s => name'[d] = name[d]
      /\ \A d \in SignIns : d # s => try'[d] = try[d]
  <2>1. CASE UNCHANGED <<name, try>>
    BY <2>1, <1>1 DEF AccountsTypeOK
  <2>2. CASE /\ try[s] < Len(Candidates[Google[s]])
             /\ try' = [try EXCEPT ![s] = @ + 1]
             /\ name' = [name EXCEPT ![s] = Candidates[Google[s]][try[s] + 1]]
    <3>1. try[s] \in Nat /\ try[s] \in DOMAIN Candidates[Google[s]]
      BY DEF AccountsTypeOK
    <3>2. /\ DOMAIN Candidates[Google[s]] = 1..Len(Candidates[Google[s]])
          /\ Len(Candidates[Google[s]]) \in Nat
      BY CandidateNames
    <3>3. try[s] + 1 \in Nat /\ try[s] + 1 \in DOMAIN Candidates[Google[s]]
      BY <2>2, <3>1, <3>2
    <3>4. Candidates[Google[s]][try[s] + 1] \in Names
      BY <3>3, CandidateNames
    <3> QED
      BY <2>2, <3>3, <3>4, <1>1 DEF AccountsTypeOK
  <2> QED
    BY <2>1, <2>2 DEF CountName
<1>6. \A d \in SignIns : try'[d] \in DOMAIN Candidates[Google[d]]
  BY <1>5 DEF AccountsTypeOK
<1>7. UNCHANGED <<user, code, mine, met>>
  BY DEF CountName
<1>8. stage[s] = "count"
  BY DEF CountName
<1> QED
  BY <1>1, <1>2, <1>4, <1>5, <1>6, <1>7, <1>8
  DEF AccountsTypeOK, AccountPlaces, Moves, Busy

LEMMA DrawStep ==
  ASSUME AccountsTypeOK, DocumentInv, NEW c \in AccountCalls, Draw(c)
  PROVE  AccountsTypeOK' /\ Moves(c)
<1>1. {"save", "insert", "error"} \subseteq AccountPlaces \ {"idle"}
  BY DEF AccountPlaces, Busy
<1>2. /\ stage' \in [AccountCalls -> AccountPlaces] /\ stage'[c] # "idle"
      /\ \A d \in AccountCalls : d # c => stage'[d] = stage[d]
  BY <1>1, StageType DEF Draw
<1>4. /\ hit' \subseteq AccountCalls /\ failed' \in 0..MaxFailures
      /\ hit \subseteq hit' /\ hit' \subseteq hit \cup {c}
  BY <1>1, FaultType DEF Draw
<1>5. /\ code' \in [AccountCalls -> Codes \cup {NoCode, EmptyCode}]
      /\ \A d \in AccountCalls : d # c => code'[d] = code[d]
  BY DEF Draw, AccountsTypeOK
<1> QED
  BY <1>1, <1>2, <1>4, <1>5
  DEF Draw, AccountsTypeOK, AccountPlaces, Moves, Busy

\* The document is new: its call has none yet.
LEMMA InsertStep ==
  ASSUME AccountsTypeOK, DocumentInv, NEW c \in Creators, Insert(c)
  PROVE  AccountsTypeOK' /\ Moves(c)
<1>1. c \in AccountCalls /\ {"ok", "error"} \subseteq AccountPlaces \ {"idle"}
  BY AccountKinds DEF AccountPlaces, Busy
<1>2. /\ stage' \in [AccountCalls -> AccountPlaces] /\ stage'[c] # "idle"
      /\ \A d \in AccountCalls : d # c => stage'[d] = stage[d]
  BY <1>1, StageType DEF Insert
<1>4. /\ hit' \subseteq AccountCalls /\ failed' \in 0..MaxFailures
      /\ hit \subseteq hit' /\ hit' \subseteq hit \cup {c}
  BY <1>1, FaultType DEF Insert
<1>5. c \notin DOMAIN user /\ stage[c] = "insert"
  BY DEF Insert, DocumentInv, Busy
<1> DEFINE google == IF c \in SignIns THEN Google[c] ELSE NoGoogle
           new    == [name |-> name[c], google |-> google, code |-> code[c]]
<1>6. new \in Document
  BY <1>1, AccountKinds DEF AccountsTypeOK, Document
<1>7. \/ user' = user /\ mine' = mine
      \/ /\ user' = [i \in DOMAIN user \cup {c} |-> IF i = c THEN new ELSE user[i]]
         /\ mine' = mine \/ mine' = [mine EXCEPT ![c] = c]
  BY DEF Insert, Found
<1> HIDE DEF new
<1>8. /\ DOMAIN user' \subseteq Creators \cup Seeded
      /\ DOMAIN user \subseteq DOMAIN user' /\ DOMAIN user' \subseteq DOMAIN user \cup {c}
      /\ \A i \in DOMAIN user : user'[i] = user[i]
      /\ \A i \in DOMAIN user' : user'[i] \in Document
      /\ mine' \in [AccountCalls -> DOMAIN user' \cup {Nobody}]
      /\ \A d \in AccountCalls : d # c => mine'[d] = mine[d]
  BY <1>1, <1>5, <1>6, <1>7 DEF AccountsTypeOK
<1>9. UNCHANGED <<name, try, code, met>>
  BY DEF Insert
<1> QED
  BY <1>1, <1>2, <1>4, <1>5, <1>8, <1>9
  DEF AccountsTypeOK, AccountPlaces, Moves, Busy

LEMMA ReadCodeStep ==
  ASSUME AccountsTypeOK, DocumentInv, NEW l \in Lookups, ReadCode(l)
  PROVE  AccountsTypeOK' /\ Moves(l)
<1>1. l \in AccountCalls /\ {"draw", "ok", "error"} \subseteq AccountPlaces \ {"idle"}
  BY AccountKinds DEF AccountPlaces, Busy
<1>2. /\ stage' \in [AccountCalls -> AccountPlaces] /\ stage'[l] # "idle"
      /\ \A d \in AccountCalls : d # l => stage'[d] = stage[d]
  BY <1>1, StageType DEF ReadCode
<1>3. met' \subseteq SUBSET AccountCalls /\ met \subseteq met'
  BY <1>1, MeetType DEF ReadCode
<1>4. /\ hit' \subseteq AccountCalls /\ failed' \in 0..MaxFailures
      /\ hit \subseteq hit' /\ hit' \subseteq hit \cup {l}
  BY <1>1, FaultType DEF ReadCode
<1>5. /\ mine' \in [AccountCalls -> DOMAIN user \cup {Nobody}]
      /\ \A d \in AccountCalls : d # l => mine'[d] = mine[d]
      /\ code' \in [AccountCalls -> Codes \cup {NoCode, EmptyCode}]
      /\ \A d \in AccountCalls : d # l => code'[d] = code[d]
  BY <1>1 DEF ReadCode, Found, AccountsTypeOK, Document
<1> QED
  BY <1>1, <1>2, <1>3, <1>4, <1>5
  DEF ReadCode, AccountsTypeOK, AccountPlaces, Moves

LEMMA SaveCodeStep ==
  ASSUME AccountsTypeOK, DocumentInv, NEW l \in Lookups, SaveCode(l)
  PROVE  AccountsTypeOK' /\ Moves(l)
<1>1. l \in AccountCalls /\ {"ok", "error"} \subseteq AccountPlaces \ {"idle"}
  BY AccountKinds DEF AccountPlaces, Busy
<1>2. /\ stage' \in [AccountCalls -> AccountPlaces] /\ stage'[l] # "idle"
      /\ \A d \in AccountCalls : d # l => stage'[d] = stage[d]
  BY <1>1, StageType DEF SaveCode
<1>4. /\ hit' \subseteq AccountCalls /\ failed' \in 0..MaxFailures
      /\ hit \subseteq hit' /\ hit' \subseteq hit \cup {l}
  BY <1>1, FaultType DEF SaveCode
<1>5. mine[l] \in DOMAIN user /\ stage[l] = "save"
  BY DEF SaveCode, DocumentInv
<1>6. user' = user \/ user' = [user EXCEPT ![mine[l]].code = code[l]]
  BY DEF SaveCode
<1>7. /\ DOMAIN user' = DOMAIN user
      /\ \A i \in DOMAIN user \ {mine[l]} : user'[i] = user[i]
      /\ user'[mine[l]] = user[mine[l]]
           \/ user'[mine[l]] = [user[mine[l]] EXCEPT !.code = code[l]]
  BY <1>5, <1>6 DEF AccountsTypeOK
<1>8. user[mine[l]] \in Document /\ code[l] \in Codes \cup {NoCode, EmptyCode}
  BY <1>1, <1>5 DEF AccountsTypeOK
<1>9. /\ user'[mine[l]] \in Document
      /\ user'[mine[l]].name = user[mine[l]].name
      /\ user'[mine[l]].google = user[mine[l]].google
      /\ user'[mine[l]].code \in {user[mine[l]].code, code[l]}
  BY <1>7, <1>8 DEF Document
<1>10. UNCHANGED <<name, try, code, mine, met>>
  BY DEF SaveCode
<1>11. AccountsTypeOK'
  BY <1>1, <1>2, <1>4, <1>7, <1>9, <1>10 DEF AccountsTypeOK, AccountPlaces
<1> QED
  BY <1>1, <1>2, <1>4, <1>5, <1>7, <1>9, <1>10, <1>11 DEF Moves, Busy

\* A step is that of one call, or none.
ActsOn(c) ==
  \/ c \in Registers /\ FindName(c)
  \/ c \in SignIns /\ (FindGoogle(c) \/ FindEmail(c) \/ Link(c) \/ CountName(c))
  \/ Draw(c)
  \/ c \in Creators /\ Insert(c)
  \/ c \in Lookups /\ (ReadCode(c) \/ SaveCode(c))

LEMMA AccountStep ==
  ASSUME AccountsTypeOK, DocumentInv, [AccountsNext]_accountsVars
  PROVE  /\ AccountsTypeOK'
         /\ UNCHANGED accountsVars \/ \E c \in AccountCalls : Moves(c) /\ ActsOn(c)
<1>1. ASSUME NEW r \in Registers, RegisterStep(r)
      PROVE  AccountsTypeOK' /\ Moves(r) /\ ActsOn(r) /\ r \in AccountCalls
  BY <1>1, AccountKinds, FindNameStep, DrawStep, InsertStep
  DEF RegisterStep, ActsOn
<1>2. ASSUME NEW s \in SignIns, SignInStep(s)
      PROVE  AccountsTypeOK' /\ Moves(s) /\ ActsOn(s) /\ s \in AccountCalls
  BY <1>2, AccountKinds, FindGoogleStep, FindEmailStep, LinkStep, CountNameStep,
     DrawStep, InsertStep DEF SignInStep, ActsOn
<1>3. ASSUME NEW l \in Lookups, GetCodeStep(l)
      PROVE  AccountsTypeOK' /\ Moves(l) /\ ActsOn(l) /\ l \in AccountCalls
  BY <1>3, AccountKinds, ReadCodeStep, DrawStep, SaveCodeStep
  DEF GetCodeStep, ActsOn
<1>4. ASSUME UNCHANGED accountsVars
      PROVE  AccountsTypeOK'
  BY <1>4 DEF accountsVars, callVars, AccountsTypeOK
<1> QED
  BY <1>1, <1>2, <1>3, <1>4 DEF AccountsNext

\* Two calls under way have met, and whoever has met another has begun.
MetInv ==
  \A c, d \in AccountCalls :
    /\ stage[c] \in Busy /\ stage[d] \in Busy /\ c # d => {c, d} \in met
    /\ {c, d} \in met => stage[c] # "idle" /\ stage[d] # "idle" /\ c # d

LEMMA MetStep ==
  ASSUME MetInv, NEW c \in AccountCalls, Moves(c)
  PROVE  MetInv'
<1>1. ASSUME NEW b \in AccountCalls, b # c, stage'[b] \in Busy
      PROVE  {c, b} \in met' /\ {b, c} \in met'
  <2>1. stage[b] \in Busy
    BY <1>1 DEF Moves
  <2>2. CASE stage[c] = "idle"
    BY <2>1, <2>2 DEF Moves, Meets
  <2>3. CASE stage[c] \in Busy
    BY <2>1, <2>3, <1>1 DEF Moves, MetInv
  <2> QED
    BY <2>2, <2>3 DEF Moves
<1>2. ASSUME NEW d \in AccountCalls, NEW e \in AccountCalls, d # e,
             stage'[d] \in Busy, stage'[e] \in Busy
      PROVE  {d, e} \in met'
  <2>1. CASE d # c /\ e # c
    BY <1>2, <2>1 DEF MetInv, Moves
  <2> QED
    BY <1>1, <1>2, <2>1
<1>3. ASSUME NEW d \in AccountCalls, NEW e \in AccountCalls, {d, e} \in met'
      PROVE  stage'[d] # "idle" /\ stage'[e] # "idle" /\ d # e
  <2>1. CASE {d, e} \in met
    <3>1. stage[d] # "idle" /\ stage[e] # "idle" /\ d # e
      BY <2>1 DEF MetInv
    <3> QED
      BY <3>1 DEF Moves
  <2>2. CASE {d, e} \notin met
    <3>1. stage[c] = "idle" /\ Meets(c)
      BY <1>3, <2>2 DEF Moves
    <3>2. PICK b \in AccountCalls : stage[b] \in Busy /\ {d, e} = {c, b}
      BY <1>3, <2>2, <3>1 DEF Meets
    <3>3. b # c /\ stage'[b] # "idle" /\ stage'[c] # "idle"
      BY <3>1, <3>2 DEF Moves, Busy
    <3> QED
      BY <3>2, <3>3
  <2> QED
    BY <2>1, <2>2
<1> QED
  BY <1>2, <1>3 DEF MetInv, Busy

LEMMA DocumentStep ==
  ASSUME AccountsTypeOK, AccountsTypeOK', DocumentInv,
         NEW c \in AccountCalls, Moves(c), ActsOn(c)
  PROVE  DocumentInv'
<1> USE AccountKinds
<1>1. ASSUME NEW d \in Creators, stage'[d] \in Busy \cup {"idle"}
      PROVE  d \notin DOMAIN user'
  <2>1. stage[d] \in Busy \cup {"idle"}
    BY <1>1 DEF Moves
  <2>2. d \notin DOMAIN user
    BY <2>1 DEF DocumentInv
  <2>3. CASE Insert(c)
    BY <2>2, <2>3, <1>1 DEF Insert, StageTo, Busy, AccountsTypeOK, Moves
  <2>4. CASE ~Insert(c)
    <3>1. DOMAIN user' = DOMAIN user
      BY <2>4 DEF ActsOn, FindName, FindGoogle, FindEmail, Link,
         CountName, Draw, ReadCode, SaveCode
    <3> QED BY <3>1, <2>2
  <2> QED
    BY <2>3, <2>4
<1>2. ASSUME NEW s \in SignIns, stage'[s] = "link"
      PROVE  mine'[s] \in DOMAIN user' /\ user'[mine'[s]].google = Google[s]
  <2>1. CASE stage[s] = "link" /\ mine'[s] = mine[s]
    BY <2>1 DEF DocumentInv, Moves
  <2>2. CASE s = c /\ stage[s] # "link"
    <3>1. FindEmail(s)
      BY <1>2, <2>2 DEF ActsOn, FindName, FindGoogle, Link,
         CountName, Draw, Insert, ReadCode, SaveCode, StageTo, AccountsTypeOK
    <3> QED
      BY <1>2, <3>1 DEF FindEmail, Found, DocumentsOf, StageTo, AccountsTypeOK
  <2>3. CASE s = c /\ stage[s] = "link"
    <3>1. FALSE
      BY <1>2, <2>3 DEF ActsOn, FindName, FindGoogle, FindEmail, Link,
         CountName, Draw, Insert, ReadCode, SaveCode, StageTo, AccountsTypeOK
    <3> QED BY <3>1
  <2> QED
    BY <1>2, <2>1, <2>2, <2>3 DEF Moves
<1>3. ASSUME NEW l \in Lookups, stage'[l] \in {"draw", "save", "ok"}
      PROVE  mine'[l] \in DOMAIN user'
  <2>1. CASE stage[l] \in {"draw", "save", "ok"} /\ mine'[l] = mine[l]
    BY <2>1 DEF DocumentInv, Moves
  <2>2. CASE l = c /\ ReadCode(c)
    BY <1>3, <2>2 DEF ReadCode, Found, StageTo, AccountsTypeOK
  <2>3. CASE l = c /\ ~ReadCode(c)
    BY <2>1, <2>3 DEF ActsOn, Draw, SaveCode
  <2> QED
    BY <1>3, <2>1, <2>2, <2>3 DEF Moves
<1> QED
  BY <1>1, <1>2, <1>3 DEF DocumentInv, Busy

\* A sign-in under way has met whoever made a document of its account.
TwinInv ==
  /\ TwinsMet
  /\ \A s \in SignIns : stage[s] \in Busy =>
       \A j \in DOMAIN user : user[j].google = Google[s] => {s, j} \in met

LEMMA TwinStep ==
  ASSUME AccountsTypeOK, AccountsTypeOK', DocumentInv, MetInv, TwinInv,
         NEW c \in AccountCalls, Moves(c), ActsOn(c)
  PROVE  TwinInv'
<1> USE AccountKinds
\* A sign-in starts to work only if its account has no document.
<1>1. ASSUME NEW s \in SignIns, stage'[s] \in Busy,
             NEW j \in DOMAIN user', user'[j].google = Google[s]
      PROVE  {s, j} \in met'
  <2>1. CASE stage[s] \in Busy
    <3>1. CASE j \in DOMAIN user
      BY <1>1, <2>1, <3>1 DEF TwinInv, Moves
    <3>2. CASE j \notin DOMAIN user
      <4>1. j = c
        BY <1>1, <3>2 DEF Moves
      <4>2. Insert(c)
        BY <1>1, <3>2 DEF ActsOn, FindName, FindGoogle, FindEmail,
           Link, CountName, Draw, ReadCode, SaveCode
      <4>3. stage[c] = "insert" /\ stage'[c] \notin Busy
        BY <4>2 DEF Insert, StageTo, AccountsTypeOK, Busy
      <4>4. s # c
        BY <1>1, <4>3
      <4> QED
        BY <2>1, <4>1, <4>3, <4>4 DEF MetInv, Moves, Busy
    <3> QED BY <3>1, <3>2
  <2>2. CASE stage[s] \notin Busy
    <3>1. s = c /\ stage[c] = "idle"
      BY <1>1, <2>2 DEF Moves
    <3>2. FindGoogle(s)
      BY <3>1 DEF ActsOn, FindName, FindEmail, Link, CountName,
         Draw, Insert, ReadCode, SaveCode
    <3>3. DocumentsOf(s) = {} /\ user' = user
      BY <1>1, <3>2 DEF FindGoogle, StageTo, AccountsTypeOK, Busy
    <3> QED
      BY <1>1, <3>3 DEF DocumentsOf
  <2> QED
    BY <2>1, <2>2
<1>2. ASSUME NEW i \in DOMAIN user', NEW j \in DOMAIN user', i # j,
             user'[i].google = user'[j].google, user'[i].google # NoGoogle
      PROVE  {i, j} \in met'
  <2>1. CASE i \in DOMAIN user /\ j \in DOMAIN user
    BY <1>2, <2>1 DEF TwinInv, TwinsMet, Moves
  <2>2. ASSUME NEW k \in DOMAIN user, c \in DOMAIN user' \ DOMAIN user,
               user'[c].google = user'[k].google, user'[c].google # NoGoogle
        PROVE  {c, k} \in met' /\ {k, c} \in met'
    <3>1. Insert(c) /\ c \in Creators
      BY <2>2 DEF ActsOn, FindName, FindGoogle, FindEmail,
         Link, CountName, Draw, ReadCode, SaveCode
    <3>2. c \in SignIns /\ user'[c].google = Google[c] /\ stage[c] = "insert"
      BY <2>2, <3>1 DEF Insert
    <3>3. user[k].google = Google[c]
      BY <2>2, <3>2 DEF Moves
    <3> QED
      BY <3>2, <3>3 DEF TwinInv, Moves, Busy
  <2> QED
    BY <1>2, <2>1, <2>2 DEF Moves
<1> QED
  BY <1>1, <1>2 DEF TwinInv, TwinsMet, Busy

\* A GetCode that works on a document whose code another one has answered has
\* met that one: it read the document before it had a code.
CodeInv ==
  /\ AnsweredCodeLasts
  /\ \A l \in Lookups :
       /\ stage[l] = "save" => code[l] \in Codes
       /\ stage[l] = "ok" => code[l] \in Codes /\ user[mine[l]].code \in Codes
  /\ \A k, l \in Lookups :
       stage[k] \in {"draw", "save"} /\ stage[l] = "ok" /\ mine[k] = mine[l]
         => {k, l} \in met

LEMMA CodeStep ==
  ASSUME AccountsTypeOK, AccountsTypeOK', DocumentInv, MetInv, CodeInv,
         NEW c \in AccountCalls, Moves(c), ActsOn(c)
  PROVE  CodeInv'
<1> USE AccountKinds
\* Only ReadCode and SaveCode answer a call, and only the former starts one.
<1>1. ASSUME NEW l \in Lookups, stage'[l] \in {"draw", "save", "ok"}
      PROVE  \/ stage[l] = stage'[l] /\ code'[l] = code[l] /\ mine'[l] = mine[l] /\ l # c
             \/ l = c /\ ReadCode(c) /\ stage'[l] \in {"draw", "ok"}
             \/ l = c /\ Draw(c) /\ stage'[l] = "save" /\ mine'[l] = mine[l]
             \/ l = c /\ SaveCode(c) /\ stage'[l] = "ok" /\ mine'[l] = mine[l]
  <2>1. CASE l # c
    BY <1>1, <2>1 DEF Moves
  <2>2. CASE l = c
    BY <1>1, <2>2 DEF ActsOn, Draw, ReadCode, SaveCode, StageTo, AccountsTypeOK
  <2> QED
    BY <2>1, <2>2
\* What an answer leaves behind.
<1>2. ASSUME ReadCode(c), c \in Lookups, stage'[c] = "ok"
      PROVE  /\ user' = user /\ mine'[c] \in DOMAIN user
             /\ code'[c] = user[mine'[c]].code /\ code'[c] \in Codes
  BY <1>2 DEF ReadCode, Found, StageTo, AccountsTypeOK, Document
<1>3. ASSUME ReadCode(c), c \in Lookups, stage'[c] = "draw"
      PROVE  /\ user' = user /\ mine'[c] \in DOMAIN user
             /\ user[mine'[c]].code \in {NoCode, EmptyCode}
  BY <1>3 DEF ReadCode, Found, StageTo, AccountsTypeOK
<1>4. ASSUME SaveCode(c), c \in Lookups, stage'[c] = "ok"
      PROVE  /\ user'[mine[c]].code = code[c] /\ code'[c] = code[c]
             /\ code[c] \in Codes /\ mine'[c] = mine[c] /\ mine[c] \in DOMAIN user
  <2>1. mine[c] \in DOMAIN user /\ user[mine[c]] \in Document
    BY <1>4 DEF SaveCode, DocumentInv, AccountsTypeOK
  <2>2. user' = [user EXCEPT ![mine[c]].code = code[c]]
    BY <1>4 DEF SaveCode, StageTo, AccountsTypeOK
  <2>3. user'[mine[c]].code = code[c]
    BY <2>1, <2>2 DEF Document
  <2> QED
    BY <2>1, <2>3, <1>4 DEF SaveCode, CodeInv
<1>5. ASSUME NEW l \in Lookups, stage'[l] = "ok"
      PROVE  /\ code'[l] \in Codes /\ mine'[l] \in DOMAIN user
             /\ user'[mine'[l]].code \in Codes
             /\ \/ user'[mine'[l]].code = code'[l]
                \/ \E k \in Lookups : {k, l} \in met' /\ mine'[k] = mine'[l]
  <2>1. CASE l = c /\ ReadCode(c)
    BY <1>2, <1>5, <2>1
  <2>2. CASE l = c /\ SaveCode(c)
    BY <1>4, <1>5, <2>2
  <2>3. CASE l # c
    <3>1. /\ stage[l] = "ok" /\ code'[l] = code[l] /\ mine'[l] = mine[l]
          /\ mine[l] \in DOMAIN user
      BY <1>5, <2>3 DEF Moves, DocumentInv
    <3>2. CASE user'[mine[l]].code = user[mine[l]].code
      <4>1. CASE user[mine[l]].code = code[l]
        BY <3>1, <3>2, <4>1 DEF CodeInv
      <4>2. CASE user[mine[l]].code # code[l]
        <5>1. PICK k \in Lookups : {k, l} \in met /\ mine[k] = mine[l]
          BY <3>1, <4>2 DEF CodeInv, AnsweredCodeLasts
        <5>2. stage[k] # "idle"
          BY <5>1, AccountKinds DEF MetInv
        <5>3. mine'[k] = mine[k]
          <6>1. CASE k # c
            BY <6>1 DEF Moves
          <6>2. CASE k = c
            BY <5>2, <6>2 DEF ActsOn, Draw, ReadCode, SaveCode
          <6> QED
            BY <6>1, <6>2
        <5> QED
          BY <3>1, <3>2, <5>1, <5>3 DEF CodeInv, Moves
      <4> QED BY <4>1, <4>2
    <3>3. CASE user'[mine[l]].code # user[mine[l]].code
      <4>1. c \in Lookups /\ mine[c] = mine[l] /\ user'[mine[l]].code = code[c]
        BY <3>1, <3>3 DEF Moves
      <4>2. SaveCode(c) /\ stage[c] = "save"
        BY <3>1, <3>3, <4>1 DEF ActsOn, FindName, FindGoogle, FindEmail, Link,
           CountName, Draw, ReadCode, SaveCode
      <4>3. {c, l} \in met /\ mine'[c] = mine[c] /\ code[c] \in Codes
        BY <3>1, <4>1, <4>2 DEF CodeInv, SaveCode
      <4> QED
        BY <3>1, <4>1, <4>3 DEF CodeInv, Moves
    <3> QED BY <3>2, <3>3
  <2> QED
    BY <1>1, <1>5, <2>1, <2>2, <2>3
<1>6. ASSUME NEW l \in Lookups, stage'[l] = "save"
      PROVE  code'[l] \in Codes
  <2>1. CASE l = c /\ Draw(c)
    BY <1>6, <2>1 DEF Draw, StageTo, AccountsTypeOK
  <2> QED
    BY <1>1, <1>6, <2>1 DEF CodeInv
<1>7. ASSUME NEW k \in Lookups, NEW l \in Lookups,
             stage'[k] \in {"draw", "save"}, stage'[l] = "ok", mine'[k] = mine'[l]
      PROVE  {k, l} \in met'
  <2>0. k # l
    BY <1>7
  <2>1. CASE k # c /\ l # c
    BY <1>7, <2>1 DEF CodeInv, Moves
  \* An answer meets a call at work ...
  <2>2. CASE l = c
    <3>1. stage[k] \in Busy
      BY <1>7, <2>0, <2>2 DEF Moves, Busy
    <3>2. CASE stage[c] = "idle"
      BY <2>2, <3>1, <3>2 DEF Moves, Meets
    <3>3. CASE stage[c] \in Busy
      BY <2>0, <2>2, <3>1, <3>3 DEF Moves, MetInv
    <3> QED
      BY <3>2, <3>3 DEF Moves
  \* ... and a call that starts to work finds no code.
  <2>3. CASE k = c
    <3>1. CASE ReadCode(c)
      <4>1. /\ stage[l] = "ok" /\ mine'[l] = mine[l]
            /\ user[mine[l]].code \in Codes
        BY <1>7, <2>0, <2>3 DEF Moves, CodeInv
      <4>2. stage'[c] = "draw"
        BY <1>7, <2>3, <3>1 DEF ReadCode, StageTo, AccountsTypeOK
      <4>3. user[mine'[c]].code \in {NoCode, EmptyCode}
        BY <1>3, <2>3, <3>1, <4>2
      <4> QED
        BY <1>7, <2>3, <4>1, <4>3
    <3>2. CASE Draw(c) /\ mine'[c] = mine[c] /\ stage[c] = "draw"
      BY <1>7, <2>0, <2>3, <3>2 DEF Moves, CodeInv
    <3> QED
      BY <1>1, <1>7, <2>3, <3>1, <3>2 DEF Draw
  <2> QED
    BY <2>1, <2>2, <2>3
<1> QED
  BY <1>5, <1>6, <1>7 DEF CodeInv, AnsweredCodeLasts

\* There is a code for everybody: randomReferralCode draws one of 31^6
\* (referral.go:57-61).
CodesSuffice ==
  /\ IsFiniteSet(Codes) /\ IsFiniteSet(Creators \cup Seeded)
  /\ Cardinality(Creators \cup Seeded) <= Cardinality(Codes)

\* Everybody has a code once every code is held.
LEMMA HeldByAll ==
  ASSUME AccountsTypeOK, CodesSuffice, \A k \in Codes : Held(k),
         NEW i \in Creators \cup Seeded
  PROVE  i \in DOMAIN user /\ user[i].code \in Codes
<1> DEFINE All == Creators \cup Seeded
           holder == [k \in Codes |-> CHOOSE j \in DOMAIN user : user[j].code = k]
<1>1. \A k \in Codes : holder[k] \in DOMAIN user /\ user[holder[k]].code = k
  BY DEF Held
<1>2. DOMAIN user \subseteq All
  BY DEF AccountsTypeOK
<1>3. holder \in [Codes -> All]
  BY <1>1, <1>2
<1>4. IsFiniteSet(All) /\ IsFiniteSet(Codes) /\ Cardinality(All) <= Cardinality(Codes)
  BY DEF CodesSuffice
<1> HIDE DEF holder, All
<1>5. holder \in Injection(Codes, All)
  BY <1>1, <1>3 DEF Injection, IsInjective
<1>6. /\ Cardinality(Codes) <= Cardinality(All)
      /\ Cardinality(Codes) = Cardinality(All) <=> holder \in Surjection(Codes, All)
  BY <1>4, <1>5, FS_Injection
<1>7. Cardinality(Codes) \in Nat /\ Cardinality(All) \in Nat
  BY <1>4, FS_CardinalityType
<1>8. holder \in Surjection(Codes, All)
  BY <1>4, <1>6, <1>7
<1>9. PICK k \in Codes : holder[k] = i
  BY <1>8 DEF Surjection, All
<1> QED
  BY <1>1, <1>9

Met(c) == \E d \in AccountCalls : {c, d} \in met

\* The last candidate of a sign-in is not looked up.
OnLast(c) == c \in SignIns /\ try[c] = Len(Candidates[Google[c]])

\* What a call without a failure found is still so, or it has met the call
\* that changed it.
Undisturbed(c) ==
  /\ stage[c] = "error" => Met(c) \/ OnLast(c)
  /\ stage[c] \in {"insert", "save"} =>
       code[c] \in Codes /\ (Held(code[c]) => Met(c))
  /\ c \in Creators /\ stage[c] \in {"draw", "insert"} =>
       (Taken(name[c]) => Met(c) \/ OnLast(c))
  /\ c \in Lookups /\ stage[c] = "draw" =>
       user[mine[c]].code \notin Codes \/ Met(c)

UndisturbedInv == \A c \in AccountCalls \ hit : Undisturbed(c)

\* A call at work that sees another one act has met it.
LEMMA MeetsActor ==
  ASSUME MetInv, NEW c \in AccountCalls, Moves(c), stage[c] # "idle",
         NEW d \in AccountCalls, d # c, stage[d] \in Busy
  PROVE  Met(d)' /\ Met(d)
<1>1. stage[c] \in Busy
  BY DEF Moves
<1>2. {d, c} \in met /\ {d, c} \in met'
  BY <1>1 DEF MetInv, Moves
<1> QED
  BY <1>2 DEF Met, AccountCalls, Creators

LEMMA UndisturbedStep ==
  ASSUME CodesSuffice, AccountsTypeOK, AccountsTypeOK', DocumentInv,
         MetInv, CodeInv, UndisturbedInv, NEW c \in AccountCalls, Moves(c), ActsOn(c)
  PROVE  UndisturbedInv'
<1> USE AccountKinds DEF Undisturbed
<1>0. \A d \in AccountCalls : Met(d) => Met(d)'
  BY DEF Met, Moves, AccountCalls, Creators
\* The other calls: what they found changes only in a step of Insert or
\* SaveCode, whose call they have met.
<1>1. ASSUME NEW d \in AccountCalls \ hit', d # c
      PROVE  Undisturbed(d)'
  <2>1. /\ d \in AccountCalls \ hit /\ stage'[d] = stage[d] /\ code'[d] = code[d]
        /\ mine'[d] = mine[d]
        /\ d \in Creators => name'[d] = name[d]
        /\ OnLast(d) => OnLast(d)'
    BY <1>1 DEF Moves, OnLast
  <2>2. CASE user' = user
    <3>1. Held(code[d])' = Held(code[d])
      BY <2>1, <2>2 DEF Held
    <3>2. d \in Creators => Taken(name[d])' = Taken(name[d])
      BY <2>1, <2>2 DEF Taken
    <3> QED
      BY <2>1, <2>2, <3>1, <3>2, <1>0 DEF UndisturbedInv
  <2>3. CASE Link(c) /\ c \in SignIns
    <3>0. DOMAIN user' = DOMAIN user /\ \A i \in DOMAIN user : user'[i] = user[i]
      BY <2>3, LinkStep
    <3>1. Held(code[d])' = Held(code[d])
      BY <2>1, <3>0 DEF Held
    <3>2. d \in Creators => Taken(name[d])' = Taken(name[d])
      BY <2>1, <3>0 DEF Taken
    <3>3. d \in Lookups /\ stage[d] = "draw" => mine[d] \in DOMAIN user
      BY DEF DocumentInv
    <3> QED
      BY <2>1, <3>0, <3>1, <3>2, <3>3, <1>0 DEF UndisturbedInv
  <2>4. CASE Insert(c) \/ SaveCode(c)
    <3>1. stage[c] # "idle"
      BY <2>4 DEF Insert, SaveCode
    <3>2. stage[d] \in Busy => Met(d)'
      BY <1>1, <3>1, MeetsActor
    <3> QED
      BY <2>1, <3>2, <1>0 DEF UndisturbedInv, Busy
  <2>5. user' = user \/ (Link(c) /\ c \in SignIns) \/ Insert(c) \/ SaveCode(c)
    BY DEF ActsOn, FindName, FindGoogle, FindEmail, CountName, Draw,
       ReadCode
  <2> QED
    BY <2>2, <2>3, <2>4, <2>5
\* The call that acts.
<1>2. ASSUME c \notin hit'
      PROVE  Undisturbed(c)'
  <2>0. c \in AccountCalls \ hit /\ ~Errs(c)
    BY <1>2 DEF Moves, Errs
  <2> USE <2>0
  <2>1. CASE c \in Registers /\ FindName(c)
    BY <2>1 DEF FindName, StageTo, Taken, AccountsTypeOK
  <2>2. CASE c \in SignIns /\ (FindGoogle(c) \/ FindEmail(c) \/ Link(c))
    BY <2>2 DEF FindGoogle, FindEmail, Link, StageTo, AccountsTypeOK
  <2>3. CASE c \in SignIns /\ CountName(c)
    <3>1. CASE ~Taken(name[c]) /\ UNCHANGED <<name, try>> /\ StageTo(c, "draw")
      <4>1. ~Taken(name[c])'
        BY <2>3, <3>1 DEF CountName, Taken
      <4> QED
        BY <3>1, <4>1, <2>3 DEF StageTo, AccountsTypeOK
    <3>2. CASE /\ try' = [try EXCEPT ![c] = @ + 1]
               /\ StageTo(c, IF try[c] + 1 = Len(Candidates[Google[c]])
                                THEN "draw" ELSE "count")
      BY <3>2, <2>3 DEF StageTo, AccountsTypeOK, OnLast
    <3> QED
      BY <2>3, <3>1, <3>2 DEF CountName
  <2>4. CASE Draw(c)
    <3>1. stage[c] = "draw" /\ UNCHANGED <<user, name, try, mine, met>>
      BY <2>4 DEF Draw
    <3>2. c \in Creators => (Taken(name[c])' => Met(c)' \/ OnLast(c)')
      <4>1. ASSUME c \in Creators
            PROVE  Taken(name[c]) => Met(c) \/ OnLast(c)
        BY <4>1, <3>1 DEF UndisturbedInv
      <4>2. /\ Taken(name[c])' = Taken(name[c])
            /\ OnLast(c)' = OnLast(c) /\ Met(c)' = Met(c)
        BY <3>1 DEF Taken, OnLast, Met, AccountCalls, Creators
      <4> QED
        BY <4>1, <4>2
    <3>3. CASE \E k \in Codes : ~Held(k) /\ code' = [code EXCEPT ![c] = k]
      <4>1. code'[c] \in Codes /\ ~Held(code'[c])
        BY <3>3 DEF AccountsTypeOK
      <4> QED
        BY <2>4, <3>1, <3>2, <4>1, <3>3
        DEF Draw, StageTo, AccountsTypeOK, Held
    <3>4. CASE \A k \in Codes : Held(k)
      <4>1. c \notin Creators
        BY <3>1, <3>4, HeldByAll DEF DocumentInv, Busy
      <4>2. c \in Lookups /\ mine[c] \in DOMAIN user
        BY <3>1, <4>1 DEF AccountCalls, DocumentInv
      <4>3. mine[c] \in Creators \cup Seeded
        BY <4>2 DEF AccountsTypeOK
      <4>4. user[mine[c]].code \in Codes
        BY <3>4, <4>3, HeldByAll
      <4>5. Met(c)'
        BY <3>1, <4>2, <4>4, <1>0 DEF UndisturbedInv
      <4> QED
        BY <2>4, <3>4, <4>1, <4>2, <4>5 DEF Draw, StageTo, AccountsTypeOK
    <3> QED
      BY <2>4, <3>3, <3>4 DEF Draw
  <2>5. CASE c \in Creators /\ Insert(c)
    <3>1. stage[c] = "insert" /\ stage'[c] \in {"ok", "error"}
          /\ UNCHANGED <<name, try, code, met>>
      BY <2>5 DEF Insert, StageTo, AccountsTypeOK
    <3>2. ASSUME stage'[c] = "error"
          PROVE  Taken(name[c]) \/ Held(code[c])
      BY <2>5, <3>2 DEF Insert, StageTo, AccountsTypeOK
    <3>3. (Taken(name[c]) \/ Held(code[c])) => Met(c) \/ OnLast(c)
      BY <2>5, <3>1 DEF UndisturbedInv
    <3>4. OnLast(c) => OnLast(c)'
      BY <3>1 DEF OnLast
    <3> QED
      BY <3>1, <3>2, <3>3, <3>4, <1>0
  <2>6. CASE c \in Lookups /\ ReadCode(c)
    BY <2>6 DEF ReadCode, Found, StageTo, AccountsTypeOK
  <2>7. CASE c \in Lookups /\ SaveCode(c)
    <3>1. stage[c] = "save" /\ stage'[c] \in {"ok", "error"}
      BY <2>7 DEF SaveCode, StageTo, AccountsTypeOK
    <3>2. ASSUME stage'[c] = "error"
          PROVE  Held(code[c])
      BY <2>7, <3>2 DEF SaveCode, StageTo, AccountsTypeOK, Held
    <3>3. Held(code[c]) => Met(c)
      BY <3>1 DEF UndisturbedInv
    <3> QED
      BY <3>1, <3>2, <3>3, <1>0
  <2> QED
    BY <2>1, <2>2, <2>3, <2>4, <2>5, <2>6, <2>7 DEF ActsOn
<1>3. SUFFICES ASSUME NEW d \in AccountCalls \ hit'
      PROVE  Undisturbed(d)'
  BY DEF UndisturbedInv, AccountCalls, Creators
<1> QED
  BY <1>1, <1>2

LEMMA AccountInit ==
  ASSUME AccountsInit
  PROVE  AccountsTypeOK /\ DocumentInv /\ MetInv /\ TwinInv /\ CodeInv /\ UndisturbedInv
<1>1. AccountsTypeOK
  <2>1. \A s \in SignIns :
          /\ Candidates[Google[s]][1] \in Names
          /\ 1 \in DOMAIN Candidates[Google[s]]
    BY CandidateNames
  <2>2. \A r \in Registers : Wanted[r] \in Names
    BY DEF Names
  <2>3. \A i \in Seeded : i \in Names
    BY DEF Names
  <2>4. name \in [Creators -> Names]
    BY <2>1, <2>2 DEF AccountsInit, Creators
  <2>5. \A i \in DOMAIN user : user[i] \in Document
    BY <2>3 DEF AccountsInit, Document
  <2> QED
    BY <2>1, <2>4, <2>5, AccountKinds DEF AccountsInit, AccountsTypeOK
<1>2. DocumentInv /\ MetInv
  BY AccountKinds, AccountsAssumption DEF AccountsInit, DocumentInv, MetInv, Busy, AccountCalls
<1>3. TwinInv /\ CodeInv /\ UndisturbedInv
  BY AccountKinds
  DEF AccountsInit, TwinInv, TwinsMet, CodeInv, AnsweredCodeLasts, UndisturbedInv,
      Undisturbed, Busy
<1> QED
  BY <1>1, <1>2, <1>3

AccountInv == AccountsTypeOK /\ DocumentInv /\ MetInv /\ TwinInv /\ CodeInv

LEMMA AccountInvStep ==
  ASSUME AccountInv, [AccountsNext]_accountsVars
  PROVE  /\ AccountInv'
         /\ CodesSuffice /\ UndisturbedInv => UndisturbedInv'
<1>1. AccountsTypeOK'
  BY AccountStep DEF AccountInv
<1>2. CASE UNCHANGED accountsVars
  <2>1. UNCHANGED <<user, stage, name, try, code, mine, met, hit, failed>>
    BY <1>2 DEF accountsVars, callVars
  <2>2. DocumentInv' /\ MetInv' /\ TwinInv' /\ CodeInv'
    BY <2>1 DEF AccountInv, DocumentInv, MetInv, TwinInv, TwinsMet, CodeInv,
       AnsweredCodeLasts, Busy, AccountCalls, Creators
  <2>3. UndisturbedInv => UndisturbedInv'
    BY <2>1 DEF UndisturbedInv, Undisturbed, Met, OnLast, Held, Taken,
       AccountCalls, Creators
  <2> QED
    BY <1>1, <2>2, <2>3 DEF AccountInv
<1>3. CASE \E c \in AccountCalls : Moves(c) /\ ActsOn(c)
  <2>1. PICK c \in AccountCalls : Moves(c) /\ ActsOn(c)
    BY <1>3
  <2>2. DocumentInv' /\ MetInv' /\ TwinInv' /\ CodeInv'
    BY <1>1, <2>1, DocumentStep, MetStep, TwinStep, CodeStep DEF AccountInv
  <2>3. CodesSuffice /\ UndisturbedInv => UndisturbedInv'
    BY <1>1, <2>1, UndisturbedStep DEF AccountInv
  <2> QED
    BY <1>1, <2>2, <2>3 DEF AccountInv
<1> QED
  BY <1>2, <1>3, AccountStep DEF AccountInv

LEMMA AccountInvHolds == AccountsSpec => []AccountInv
<1>1. AccountsInit => AccountInv
  BY AccountInit DEF AccountInv
<1>2. AccountInv /\ [AccountsNext]_accountsVars => AccountInv'
  BY AccountInvStep
<1> QED
  BY <1>1, <1>2, PTL DEF AccountsSpec

\* The documents and calls keep their types; no search for a free username
\* runs past the last candidate (google_auth.go:362-386).
THEOREM AccountTypes == AccountsSpec => []AccountsTypeOK
<1>1. AccountInv => AccountsTypeOK
  BY DEF AccountInv
<1> QED BY <1>1, AccountInvHolds, PTL

\* Two documents of a Google account come from sign-ins that were under way
\* together, however many there are and whatever fails
\* (google_auth.go:263-342).
THEOREM TwinsHaveMet == AccountsSpec => []TwinsMet
<1>1. AccountInv => TwinsMet
  BY DEF AccountInv, TwinInv
<1> QED BY <1>1, AccountInvHolds, PTL

\* A code once answered stays, but for a GetCode of the same document that
\* was under way with the one that answered (referral.go:161-178).
THEOREM AnswersLast == AccountsSpec => []AnsweredCodeLasts
<1>1. AccountInv => AnsweredCodeLasts
  BY DEF AccountInv, CodeInv
<1> QED BY <1>1, AccountInvHolds, PTL

\* With a code for everybody, a call that met nobody and lost no command does
\* not end in an error, but for a username no longer looked up
\* (auth.go:73-110, google_auth.go:308-339, referral.go:539-551).
THEOREM UndisturbedSucceed ==
  CodesSuffice => (AccountsSpec => []UndisturbedSucceeds)
<1> SUFFICES ASSUME CodesSuffice
             PROVE  AccountsSpec => []UndisturbedSucceeds
  OBVIOUS
<1>1. AccountsInit => AccountInv /\ UndisturbedInv
  BY AccountInit DEF AccountInv
<1>2. AccountInv /\ UndisturbedInv /\ [AccountsNext]_accountsVars
        => (AccountInv /\ UndisturbedInv)'
  BY AccountInvStep
<1>3. UndisturbedInv => UndisturbedSucceeds
  BY DEF UndisturbedInv, Undisturbed, Met, OnLast, UndisturbedSucceeds
<1> QED
  BY <1>1, <1>2, <1>3, PTL DEF AccountsSpec
=============================================================================
