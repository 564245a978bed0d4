------------------------------ MODULE Referral ------------------------------
(***************************************************************************)
(* matchmaking-service/handlers/referral.go: ApplyCode, which rewards a    *)
(* new user and the owner of the code in two documents of users and        *)
(* records the event in a document of referrals, and ClaimRewards, which   *)
(* turns a user's pending rewards into coins.                              *)
(*                                                                         *)
(* One MongoDB command is one step.  A reward of 100 coins and one bonus   *)
(* game is the unit: both counters of a document always move together.     *)
(* The age of an account is not modelled, so that it may be too old at any *)
(* time.                                                                   *)
(***************************************************************************)
EXTENDS Naturals

CONSTANTS
  Users,
  NoUser,       \* no user: a code that nobody has, referred_by not set
  Applies,      \* ApplyCode calls that may be made
  Referee,      \* the user making each
  Referrer,     \* the owner of the code it names
  Claims,       \* ClaimRewards calls that may be made
  Claimant,     \* the user making each
  Cap,          \* maxReferralsPerUser
  MaxFaults,    \* bound: failed commands
  MaxRestarts   \* bound: restarts of matchmaking-service

Calls == Applies \cup Claims

ASSUME ReferralAssumption ==
  /\ NoUser \notin Users /\ Applies \cap Claims = {}
  /\ Referee \in [Applies -> Users]
  /\ Referrer \in [Applies -> Users \cup {NoUser}]
  /\ Claimant \in [Claims -> Users]
  /\ Cap \in Nat \ {0} /\ MaxFaults \in Nat /\ MaxRestarts \in Nat

RefereeReward  == 1
ReferrerReward == 2

VARIABLES
  at,          \* the place of each call
  event,       \* the documents of referrals, by the call that inserted them
  referredBy, count, pending, total,  \* fields of the documents of users
  copy,        \* the pending rewards each claim has read
  \* what happened, for the properties only
  granted,     \* the rewards granted to each user
  rewarded,    \* the calls that have rewarded their referee,
  credited,    \*    and those that have rewarded the referrer
  stranded,    \* calls cut short by a failure or a restart
  undone,      \* users whose event was deleted though they had been rewarded
  crowded,     \* users with two calls past the check of their count
  torn,        \* users rewarded or paid between a claim's two commands
  faults, restarts

userVars    == <<referredBy, count, pending, total>>
historyVars == <<granted, rewarded, credited, stranded, undone, crowded, torn>>
boundVars   == <<faults, restarts>>
vars == <<at, event, userVars, copy, historyVars, boundVars>>

Applying == {"code", "event", "referee", "cleanup", "referrer"}

TypeOK ==
  /\ at \in [Calls -> Applying \cup {"idle", "pay", "ok", "refused"}]
  /\ event \subseteq Applies
  /\ referredBy \in [Users -> Users \cup {NoUser}]
  /\ count \in [Users -> Nat] /\ pending \in [Users -> Nat]
  /\ total \in [Users -> Nat] /\ copy \in [Claims -> Nat]
  /\ granted \in [Users -> Nat]
  /\ rewarded \subseteq Applies /\ credited \subseteq Applies
  /\ stranded \subseteq Applies
  /\ undone \subseteq Users /\ crowded \subseteq Users /\ torn \subseteq Users
  /\ faults \in 0..MaxFaults /\ restarts \in 0..MaxRestarts

Init ==
  /\ at = [c \in Calls |-> "idle"]
  /\ event = {}
  /\ referredBy = [u \in Users |-> NoUser]
  /\ count = [u \in Users |-> 0] /\ pending = [u \in Users |-> 0]
  /\ total = [u \in Users |-> 0] /\ copy = [c \in Claims |-> 0]
  /\ granted = [u \in Users |-> 0]
  /\ rewarded = {} /\ credited = {} /\ stranded = {}
  /\ undone = {} /\ crowded = {} /\ torn = {}
  /\ faults = 0 /\ restarts = 0

\* A command succeeds, or fails within the bound, having had its effect or
\* not; the context's deadline and a client that goes away count as that.
Works == UNCHANGED boundVars
Fails == faults < MaxFaults /\ faults' = faults + 1 /\ UNCHANGED restarts

CallTo(c, place) == at' = [at EXCEPT ![c] = place]

\* Calls between the check of the referrer's count and its increment.
Counting(u) ==
  {a \in Applies : /\ Referrer[a] = u
                   /\ at[a] \in {"event", "referee", "cleanup", "referrer"}}

\* u, if one of the claims in C is a claim of u that has read and not paid.
MidClaim(u, C) ==
  {v \in {u} : \E c \in C : Claimant[c] = v /\ at[c] = "pay"}

Reward(u, amount) ==
  /\ pending' = [pending EXCEPT ![u] = @ + amount]
  /\ granted' = [granted EXCEPT ![u] = @ + amount]
  /\ torn' = torn \cup MidClaim(u, Claims)

NoReward == UNCHANGED <<pending, granted, torn>>

----------------------------------------------------------------------------
(* ApplyCode.                                                              *)

\* The referee's document: referred already, or too old.
ReadReferee(a) ==
  /\ at[a] = "idle"
  /\ \/ Works /\ referredBy[Referee[a]] = NoUser /\ CallTo(a, "code")
     \/ Works /\ CallTo(a, "refused")
     \/ Fails /\ CallTo(a, "refused")
  /\ UNCHANGED <<event, userVars, copy, historyVars>>

\* Wrong: the referrer's count is not looked at.
ReadReferrer_NoCap(a) ==
  /\ at[a] = "code" /\ Works
  /\ IF Referrer[a] \in {NoUser, Referee[a]}
       THEN CallTo(a, "refused") /\ UNCHANGED crowded
       ELSE /\ CallTo(a, "event")
            /\ crowded' = crowded \cup
                 {u \in {Referrer[a]} : Counting(u) # {}}
  /\ UNCHANGED <<event, userVars, copy, granted, rewarded, credited, stranded,
                 undone, torn>>

\* The owner of the code: nobody, oneself, or one who has had Cap referrals.
ReadReferrer(a) ==
  LET u == Referrer[a]
      allowed == u \notin {NoUser, Referee[a]} /\ count[u] < Cap
  IN  /\ at[a] = "code"
      /\ \/ /\ Works /\ allowed /\ CallTo(a, "event")
            /\ crowded' = crowded \cup {v \in {u} : Counting(v) # {}}
         \/ Works /\ ~allowed /\ CallTo(a, "refused") /\ UNCHANGED crowded
         \/ Fails /\ CallTo(a, "refused") /\ UNCHANGED crowded
      /\ UNCHANGED <<event, userVars, copy, granted, rewarded, credited,
                     stranded, undone, torn>>

\* Wrong: two documents of a referee are accepted.
InsertEvent_NotUnique(a) ==
  /\ at[a] = "event" /\ Works /\ CallTo(a, "referee")
  /\ event' = event \cup {a}
  /\ UNCHANGED <<userVars, copy, historyVars>>

\* referee_id is unique in referrals.
InsertEvent(a) ==
  /\ at[a] = "event"
  /\ IF \E e \in event : Referee[e] = Referee[a]
       THEN (Works \/ Fails) /\ CallTo(a, "refused") /\ UNCHANGED <<event, stranded>>
       ELSE \/ /\ Works /\ CallTo(a, "referee")
               /\ event' = event \cup {a} /\ UNCHANGED stranded
            \/ /\ Fails /\ CallTo(a, "refused")
               /\ \/ UNCHANGED <<event, stranded>>
                  \/ event' = event \cup {a} /\ stranded' = stranded \cup {a}
  /\ UNCHANGED <<userVars, copy, granted, rewarded, credited, undone, crowded,
                 torn>>

\* referred_by and the referee's reward, in one command.
RewardReferee(a) ==
  LET take == /\ referredBy' = [referredBy EXCEPT ![Referee[a]] = Referrer[a]]
              /\ Reward(Referee[a], RefereeReward)
              /\ rewarded' = rewarded \cup {a}
  IN  /\ at[a] = "referee"
      /\ \/ Works /\ take /\ CallTo(a, "referrer") /\ UNCHANGED stranded
         \/ /\ Fails /\ CallTo(a, "cleanup")
            /\ \/ UNCHANGED <<referredBy, rewarded, stranded>> /\ NoReward
               \/ take /\ stranded' = stranded \cup {a}
      /\ UNCHANGED <<event, count, total, copy, credited, undone, crowded>>

\* Wrong: the event stays.
DeleteEvent_Kept(a) ==
  /\ at[a] = "cleanup" /\ Works /\ CallTo(a, "refused")
  /\ UNCHANGED <<event, userVars, copy, historyVars>>

\* The command that failed may have had its effect all the same.  An error
\* of the deletion is ignored.
DeleteEvent(a) ==
  LET deleted == /\ event' = event \ {a} /\ UNCHANGED stranded
                 /\ undone' = undone \cup {Referee[e] : e \in {a} \cap rewarded}
  IN  /\ at[a] = "cleanup" /\ CallTo(a, "refused")
      /\ \/ Works /\ deleted
         \/ /\ Fails
            /\ \/ deleted
               \/ UNCHANGED <<event, undone>> /\ stranded' = stranded \cup {a}
      /\ UNCHANGED <<userVars, copy, granted, rewarded, credited, crowded, torn>>

\* Best effort: an error is only logged.
RewardReferrer(a) ==
  LET take == /\ count' = [count EXCEPT ![Referrer[a]] = @ + 1]
              /\ Reward(Referrer[a], ReferrerReward)
              /\ credited' = credited \cup {a}
  IN  /\ at[a] = "referrer" /\ CallTo(a, "ok")
      /\ \/ Works /\ take /\ UNCHANGED stranded
         \/ Fails /\ take /\ UNCHANGED stranded
         \/ /\ Fails /\ UNCHANGED <<count, credited>> /\ NoReward
            /\ stranded' = stranded \cup {a}
      /\ UNCHANGED <<event, referredBy, total, copy, rewarded, undone, crowded>>

----------------------------------------------------------------------------
(* ClaimRewards.                                                           *)

ReadPending(c) ==
  /\ at[c] = "idle"
  /\ \/ /\ Works /\ copy' = [copy EXCEPT ![c] = pending[Claimant[c]]]
        /\ CallTo(c, IF pending[Claimant[c]] = 0 THEN "ok" ELSE "pay")
     \/ Fails /\ CallTo(c, "refused") /\ UNCHANGED copy
  /\ UNCHANGED <<event, userVars, historyVars>>

\* Wrong: the pending rewards stay.
PayClaim_NoReset(c) ==
  /\ at[c] = "pay" /\ Works /\ CallTo(c, "ok")
  /\ total' = [total EXCEPT ![Claimant[c]] = @ + copy[c]]
  /\ torn' = torn \cup MidClaim(Claimant[c], Claims \ {c})
  /\ UNCHANGED <<event, referredBy, count, pending, copy, granted, rewarded,
                 credited, stranded, undone, crowded>>

\* What was read is added to the total, what is pending now becomes 0.
PayClaim(c) ==
  LET take == /\ total' = [total EXCEPT ![Claimant[c]] = @ + copy[c]]
              /\ pending' = [pending EXCEPT ![Claimant[c]] = 0]
              /\ torn' = torn \cup MidClaim(Claimant[c], Claims \ {c})
  IN  /\ at[c] = "pay"
      /\ \/ Works /\ take /\ CallTo(c, "ok")
         \/ Fails /\ CallTo(c, "refused") /\ take
         \/ Fails /\ CallTo(c, "refused") /\ UNCHANGED <<total, pending, torn>>
      /\ UNCHANGED <<event, referredBy, count, copy, granted, rewarded,
                     credited, stranded, undone, crowded>>

----------------------------------------------------------------------------
\* matchmaking-service restarts: the calls in progress end where they are.
Restart ==
  /\ restarts < MaxRestarts /\ restarts' = restarts + 1
  /\ at' = [c \in Calls |->
              IF at[c] \in Applying \cup {"pay"} THEN "refused" ELSE at[c]]
  /\ stranded' = stranded \cup
       {a \in Applies : at[a] \in {"referee", "cleanup", "referrer"}}
  /\ UNCHANGED <<event, userVars, copy, granted, rewarded, credited, undone,
                 crowded, torn, faults>>

ApplyStep(a) ==
  \/ ReadReferee(a) \/ ReadReferrer(a) \/ InsertEvent(a)
  \/ RewardReferee(a) \/ DeleteEvent(a) \/ RewardReferrer(a)

ClaimStep(c) == ReadPending(c) \/ PayClaim(c)

Next ==
  \/ \E a \in Applies : ApplyStep(a)
  \/ \E c \in Claims : ClaimStep(c)
  \/ Restart

Spec == Init /\ [][Next]_vars

----------------------------------------------------------------------------
(* What holds.                                                             *)

\* A referral is whole, is being made, or was cut short by a failed command
\* or a restart: its event, the referee's reward and the referrer's reward
\* exist together, and a referrer is never rewarded for a referee who was
\* not (referral.go:322-361).
ReferralIsWhole ==
  /\ \A a \in event : \/ a \in rewarded \cup stranded
                      \/ at[a] \in {"referee", "cleanup"}
  /\ \A a \in rewarded : a \in credited \cup stranded \/ at[a] = "referrer"
  /\ credited \subseteq rewarded

\* A user is rewarded for one code only, whatever calls of his overlap,
\* unless the clean-up deleted the event of a reward whose reply was lost
\* (referral.go:322-345).
RefereeRewardedOnce ==
  \A a, b \in rewarded :
    a # b /\ Referee[a] = Referee[b] => Referee[a] \in undone

\* Only calls for one code that overlap carry its owner over the cap
\* (referral.go:311-316, 352-358).
CapUnlessCrowded == \A u \in Users : u \in crowded \/ count[u] <= Cap

\* What a user was granted is pending or in his total, unless a claim
\* overlapped with another or with a reward (referral.go:407-445).
BooksBalanceUnlessTorn ==
  \A u \in Users : u \in torn \/ total[u] + pending[u] = granted[u]

----------------------------------------------------------------------------
(* What the comments say, and the code does not do.                        *)

\* "ClaimRewards atomically claims all pending referral rewards"
\* (referral.go:380): nothing is lost, and nothing paid twice.
ClaimIsAtomic == \A u \in Users : total[u] + pending[u] = granted[u]
=============================================================================
