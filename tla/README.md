# Quiz Battle: TLA+ models and proofs

Quiz Battle is a real-time multiplayer quiz: five Go services that talk over
gRPC, RabbitMQ, Redis and MongoDB, and a Flutter client. This directory holds
TLA+ models of the parts in which goroutines, services and restarts interleave,
TLC configurations that check them on small instances, and proofs, checked by
TLAPS, of the main safety properties for every value of the constants.

Everything is translated from the code. Where a document or a comment
says otherwise, the model follows the code; see [Divergences](#divergences).

## The system

| Component | State it keeps | Operations | Interacts with |
|---|---|---|---|
| room hub and event streams (quiz-service, `handlers/quiz_handler.go`) | `roomHub.rooms` under `hub.mu`; per `gameRoom` its subscribers, active players, round total, `startOnce` under `room.mu` | `StreamGameEvents`, `SubmitAnswer`, `getOrCreate`, `addSub`/`removeSub`, `markForfeited`, `closeAll`, `delete` | clients (streams), game loop (shared room object), Redis (`LLEN`, `HSETNX`) |
| game loop and rounds (quiz-service, `quiz_handler.go`, `quiz.go`) | the goroutine's round, auto-winner; in Redis the questions list, `submitted:{n}`, `round:{n}:closed` | `runGameLoop`, `RunRound`, `buildMatchEndEvent`, `updatePlayerRatings`, `saveMatchHistory` | streams (broadcast), Redis, MongoDB, RabbitMQ (`round.completed`, `match.finished`), the leaderboard of scoring-service |
| question selection (quiz-service, `rabbitmq/match_consumer.go`, `questions/selection.go`) | the delivery in hand; in Redis the room's questions list; in MongoDB the questions and what past matches asked | one delivery of `match.created`: look up what was seen, draw per difficulty, fill up, store | matchmaking (event), the loop (list), match history (what was seen) |
| match history (quiz-service, `quiz_handler.go`) | `match_history` | `buildMatchEndEvent`, `saveMatchHistory`, `trimMatchHistory` | the loop, question selection, notification worker |
| answer scoring (scoring-service, `rabbitmq/consumer.go`) | in Redis `answers:{n}`, `leaderboard`, `correct_counts`, response times; the durable queue and its dead letter queue | `handle`, `process`, retries, acknowledgements | `SubmitAnswer` (event), the loop and clients (leaderboard) |
| matchmaking (`handlers/matchmaking.go`, `redis/`) | `matchmaking:pool`, `player:{id}`, the lock, rooms; `playerChans` under `h.mu` | `JoinMatchmaking`, `tryCreateRoom`, `SubscribeToMatch`, `LeaveMatchmaking` | clients, quiz-service (event, room) |
| daily quota (`matchmaking.go`), user stats (`user_stats.go`), tournaments (`tournament.go`) | games of the day, bonus games and coins of a user; participants of a tournament; the client's own copies | `enforceQuotaAndIncrement`, tournament `Join`, `PushStats`/`GetStats` | `JoinMatchmaking`, clients |
| referrals (`referral.go`) | `referred_by`, count, pending and total rewards of a user; one document of `referrals` per referee | `GetCode`, `ApplyCode`, `ClaimRewards` | clients, notification worker (`referred_by`) |
| authentication (`auth.go`, `google_auth.go`) | documents of `users` under the unique indexes | `Register`, `Login`, `GoogleSignIn` | Google, clients |
| payments (payment-service, `handlers/payment.go`, `handlers/webhook.go`) | documents in `payments` (one per order), `subscriptions`, `users.premium` | `CreateOrder`, `VerifyPayment`, webhook (`payment.captured`, `payment.failed`) | Razorpay, RabbitMQ (`payment.success`), clients |
| notification worker (`worker/consumer.go`, `db/db.go`) | the delivery in hand; first-match flag of a user; device tokens | the consumer of `match.finished` and others, scheduler | match history, referrals, FCM |
| Flutter client | the game state of the provider, the reconnect counter | event handlers, backoff | all services |

What is hard about it:

* The room object is reached from many goroutines, in several critical
  sections per call; `startOnce` is per object and not per `roomID`; the loop
  removes whatever the hub holds under its `roomID` when it ends.
* Redis outlives a restart of quiz-service, the hub does not.
* Broker deliveries come again; the consumer counts, scores and marks in three
  commands, of which the last may be lost.
* Pairing spans several Redis commands and a publish under a lock that may run out; join, leave
  and a second stream of a player run beside it.
* A payment is settled by the client's call and by events that Razorpay sends
  again and in no order, in separate commands on three collections.
* `match.finished` precedes the document of the match by seconds, and the worker
  that wants both refuses the event until the document is there. Meanwhile other
  loops save matches of the same players and trim their histories.
* The questions of a match are drawn from the history while other matches are
  played; a redelivery stores a second list under a match that is under way.
* Most requests on a user's document read, decide, and write later: two of them,
  midnight, or the client's pushes of its own copies fall in between. What
  protects an invariant is, in each case, a unique index, an atomic command, or
  nothing.
* Rounds must end whether players answer, go silent, forfeit or disconnect.

What makes each modelled part correct is listed under
[What is checked](#what-is-checked).

## Modules

| Module | What it is |
|---|---|
| `GameRoom` | one `roomID`: hub, room objects, streams, forfeits, the loop with `RunRound`, its keys in Redis |
| `RoomContract` | abstract: what all loops of a room together promise |
| `MCGameRoom` | instances for TLC |
| `GameRoomProofs` | proofs about `GameRoom` |
| `AnswerLedger` | abstract: what answer processing promises |
| `AnswerScoring` | `SubmitAnswer` to leaderboard; implements `AnswerLedger` |
| `MCAnswerScoring`, `AnswerScoringProofs` | instances, proofs |
| `PairingContract` | abstract: what matchmaking promises about rooms |
| `Matchmaking` | pool, pairing lock, `tryCreateRoom`, streams, leave; implements `PairingContract` |
| `MCMatchmaking`, `MatchmakingProofs` | instances, proofs |
| `PaymentContract` | abstract: what payment-service promises about orders and subscriptions |
| `Payment` | orders, verification and webhook events on the documents of MongoDB; implements `PaymentContract` |
| `MCPayment`, `PaymentProofs` | instances, proofs |
| `QuestionBank` | `match.created` to the questions a room is asked, and back into the history |
| `MCQuestionBank`, `QuestionBankProofs` | instances, proofs |
| `MatchAftermath` | `match.finished`, `match_history` with its trims, and the notification worker |
| `MCMatchAftermath`, `MatchAftermathProofs` | instances, proofs |
| `Referral` | `ApplyCode` and `ClaimRewards` on the documents of several users |
| `MCReferral`, `ReferralProofs` | instances, proofs |
| `Wallet` | daily games, bonus games and coins of a user, tournaments, and the client's copies |
| `MCWallet`, `WalletProofs` | instances, proofs |
| `Accounts` | `Register`, the sign-in with Google, `GetCode` |
| `MCAccounts` | instances; the proofs are the second part of `ReferralProofs`, which extends both modules |

One step of a model is one critical section of a mutex, one Redis command, one
publish, one query, or one channel operation. Where a Go function makes several
of these, it is a chain of actions with a program counter, so that others may
run in between. Sleeps and timers elapse at any moment. Operators called
`X_Something` and marked "Wrong:" are not part of a specification: they are
`X` with a plausible mistake, and each property is seen to fail with one.

### GameRoom

`loop[o]` is the place of the game loop of the `o`-th room object allocated for
the `roomID`; `"none"` means that its `startOnce` has not fired. The places
follow the code: `lobby` (the first sleep), `check` (head of the `for` and the
two tests of `activeCount`), `sole` (between `activeCount` and
`lastActiveUserID`), `pop`, `ask`, `open` (the select of `RunRound`), `tick`
(between the two reads of a tick), `close` (`SETNX`), `publish`, `remaining`
(`LLEN` and `match.finished`), `after`, `afterOne`, `soleAfter`, `result`,
`final` (`buildMatchEndEvent` and `MatchEnd`), `rate`, `save`, `linger`,
`closing`, `delete`. `stream[c]` is the place of a `StreamGameEvents` handler:
look-up, `LLEN`, `getOrCreate`, `addSub`, `startOnce.Do` and the select are
steps of their own. A player's second connection is a reconnect. The keys in
Redis live 30 minutes: a round's mark (`ExpireMark`), what is left of the list
(`ExpireList`) and a round's submissions (`ExpireSubmitted`) may be gone at any
moment, up to `MaxExpiries` of them, and `lapses[r]` counts the marks that
expired. `entrants` are those who have ever submitted, which is all the
leaderboard can hold; its own key is scoring-service's and is not expired here.

`active` follows the code and not its name: `addSub` adds to it, only
`markForfeited` takes away from it, a disconnect does not.

Left abstract: the content of questions, points, ranks; the leaderboard is
"any part of the submitters". The non-critical events a full channel drops
(`TimerSync`, player counts) are not modelled; the critical ones of a match fit
its `totalRounds*40+50` places (`quiz_handler.go:386`). `rated` and `saved`
count runs of `updatePlayerRatings` and `saveMatchHistory`, and not the
documents they touch.

`RoomContract` says what consumers of the events and the players' records may
rely on, without streams, forfeits, rounds in progress, or Redis: one loop runs
at a time (`Begin`); no round is completed again unless its mark has expired
since (`Lapse`), and while nothing fails or expires the rounds come in order,
across restarts too (`Publish`); `match.finished` is
published less often than questions were stored (`Finish`); results are
published before the ratings are updated, which is before the history is saved
(`Rate`, `Save`); a loop that gives up or is lost has none of these follow.
`Contract` in `GameRoom` maps the places of the loops to its phases.

### AnswerScoring and AnswerLedger

`call[c]` follows one `SubmitAnswer` (two commands: `HSETNX`, publish). `hand`,
`at` and `attempt` are the consumer's delivery, its place in `process`, and the
attempt. `Qos(1)` and one consumer make it sequential; only the broker, a
restart and a lost connection interfere. `slips[s]` is a history variable: it
counts the times that the mark in `answers` was lost, because it was not written
after the points were added, or because its 30 minutes were over
(`MarkExpires`, `consumer.go:31`). Neither limit is in the hands of the
consumer: a message may wait longer than that, since a service that has lost its
AMQP channel goes on without a consumer. The TTL of `submitted` is left out here,
where no step reads that hash.

`AnswerLedger` says what a caller may rely on: a published answer is pending
until its slot has points (or it concerns no question), or until it is buried
in the dead letter queue.

### Matchmaking

An attempt (`tryCreateRoom`) and its room are named by the join that scheduled
the attempt. `lobbyWait` and the TTL of the lock are both 10 s, so that the
lock an attempt finds is not the one that was held when its player joined;
`before` keeps that fact without a clock. `expired` records the attempts whose
lock ran out while they were in the section.

`PairingContract` knows only calls, rooms, publications and streams. A room is
formed once (`Form`), with `MinPlayers` to `RoomSize` players each of whom has
made more calls than he is in rooms; the exception is a room without players,
stored by a `CreateRoom` whose reply was lost, of which nobody ever hears. Only
rooms with players are announced (`Announce`), and a stream is told once, of a
room of its player, which was announced before unless that failed (`Tell`). The
pool, the lock, attempts, channels, leaving, expiry and restarts are steps that
leave all this alone.

### Payment

`order[o]` follows one `CreateOrder`, `at[c]` one `VerifyPayment` call or one
webhook event; both go through the same commands (`ProcessStep`), named after
their places: `check` and `find` (the two `FindOne`), `capture`, `upsert` and
`insert` (an upsert with its look-up apart from its insertion, as MongoDB has it
without a unique index), `premium`, `publish`. `Refuse` is status 500: the
client gives up, Razorpay sends the event again. `Pay` stands for Razorpay: an
order is paid once, after any number of failed attempts. A failing write may
have been done. `granted` and `stranded` are history variables: payments for
which a subscription was written, and those that a failure or restart left so
that every later call and event ends early. A client verifies payments of its
own order (so that `userID` of the token is that of the document), a
subscription does not run out, and coupons only change the amount.

`PaymentContract` leaves out the calls, the documents of `payments` and all
failures. An order is opened for a user who has no subscription (`Open`), may be
placed after that (`Place`), and is paid at most once (`Pay`); only payments that
were captured grant (`Grant`), a grant adds a subscription or renames one; the
premium flag needs a subscription (`Flag`), and `payment.success` a grant
(`Announce`). Nothing is ever taken away but orders that never were placed
(`Abandon`). It does not promise a single subscription, which is the first of
the [divergences](#divergences).

### QuestionBank

`job` is the message in the consumer's hands with its place: `history`
(`fetchSeenQuestionIDs`), `draw` (one query for each difficulty, `drawn` counts
them), `fill`, `delete` and `push`. The last two travel in one pipeline and can
be served apart. A stream that finds no room in the hub reads `LLEN`
(`CountQuestions`) and at any later time finds the room that another has opened
(`Join`) or opens it with the rounds it has counted (`Open`); `counts` are these
numbers in flight. `left` and `played` are the loop's rounds and
`playedQuestionIDs`. `Pop` (`LPOP`) and `Ask` (`FindOne` and the broadcast) are
two steps, with the question in `hand` between them; a redelivery may store a new
list there. `records` are the documents of `match_history` as
`fetchSeenQuestionIDs` reads them, those of matches before (`Earlier`) included. A loop starts again after a restart as it
does in `GameRoom`. `known`, `asked`, `reselected`, `lacking` and `overtaken` are
history variables, and so is `stale` of a count: a question was popped since.
`Share` is `SelectForRoom`'s 40/40/20 split with Go's rounding.

### MatchAftermath

`loop[r]` is the end of a game loop as the history sees it, `job` the worker's
delivery (`find`, `players`, then `mark`, `token`, `send` with a player in
hand). Rooms are numbered in the order of `created_at`, which is all that
`trimMatchHistory` sorts by. `standing[r]` are the players in the final scores,
which may be fewer than the players of the match: `buildMatchEndEvent` takes
those of the leaderboard if it has any. `owed[u]` holds the documents that a
trim has not had the occasion to see or to delete; `saved`, `sends` and `missed`
are history variables too.

### Referral

`at[c]` follows one call. The reward of 100 coins and one bonus game is the
unit: the two counters of a document always move in the same command. The
unique index on `referee_id` is in `InsertEvent`. A command that fails may have
had its effect, and a restart ends a call where it is; `stranded`, `undone`,
`crowded` and `torn` are history variables that say which calls met which.

### Wallet

Games (`JoinMatchmaking` calls, as far as `enforceQuotaAndIncrement` goes),
entries (tournament `Join`) and pushes (`POST /user/stats`) work on the same
fields; `myCoins` and `myBonus` are the copies of the client, which is free to
push at any time and to hear late. Days are counted from 0. `loose`, `rushed`,
`spree` and `stranded` are history variables: which users, tournaments and
entries met an overlap, a failed command or a restart.

### Accounts

A document of `users` is named by the call that inserted it. `username` is
unique, and so is `referral_code` where the field is there, the empty code
included; `google_id` is not (`mongo-init/init.js`). An e-mail address belongs to one Google account, and
`Register` stores none, so that either look-up finds the documents of that
account. `met` and `hit` are history variables: the pairs of calls that were
under way together, and the calls one of whose commands failed.

The history variables have one purpose in common: each property of these
modules says what protects it, and exactly which meeting of two calls, failed
command or restart the code has no protection against. A property without its
exception would be false of the code.

## What is checked

| Run | Instance | Properties | What it shows |
|---|---|---|---|
| `room_live` | 2 players, one of whom may forfeit, 2 room objects, a restart, the list or the submissions expire, every call to Redis, MongoDB and RabbitMQ may fail; 310 000 states | `LoopTerminates`, `MatchEndReachesPlayers`, `ContractSpec` | every loop ends; a player streaming in a match gets `MatchEnd` unless he leaves or an error ends the loop; a forfeit that allocates the room before the first stream breaks nothing of `RoomContract` |
| `room_restart` | 2 players with 2 connections each, 2 questions, a restart, a broken stream, an expired mark, symmetric; 3.4 M states | `RoundCompletedOnce`, `FinishedOncePerSelection`, `LoopOwnsHub`, `EarlyExitWaitsForAsked`, `ContractSpec` | over all loops `round.completed` is single for a round, or comes again after the round's mark expired; the end is announced once per selection of questions; a loop that runs is the loop of the hub's room, so that its deferred `hub.delete` never removes a successor; a round cut short leaves no more of the players it was put to unanswered than there are submissions of others; the loops of both incarnations of the service together keep `RoomContract`, with the rounds in order |
| `scoring_core` | 3 answers for 2 slots, one of them to no question; 3 failed calls, a restart, a lost connection, marks that expire; 1.1 M states | `ScoredOncePerSlip`, `LedgerSpec`, `EveryAnswerSettles` | points are added again only after a mark was not written or has expired; no published answer is lost; each leaves the queue while the connection lasts |
| `match_core` | 3 joins of 2 players, a leaver, an expired lock, a restart, failing calls; 5.6 M states | `OneSeatPerJoin`, `LockHeldUnlessExpired` | a call of `JoinMatchmaking` gets at most one seat, even with two attempts in the section; nobody frees the lock of another |
| `match_live` | 3 joins of 3 players, a stream, channels of capacity 1; 790 000 states | `PoolWatched`, `MatchFoundIsForMember`, `PoolDrains`, `ContractSpec` | enough players for a match do not stay in the pool, since an attempt that will pop them is always there or still to come; whoever is told of a room is in it, and it was stored and announced before; rooms are formed, announced and told of as `PairingContract` says |
| `payment_core` | 2 orders of a user, 3 payments, 2 calls, 2 events, 2 failing requests, a restart; 260 000 states | `CapturedIsGranted`, `SubscriptionIsPaid`, `AcknowledgedSettles`, `EveryCaptureGrants`, `ContractSpec` | a captured document has its subscription unless a failure between the two writes stranded it; subscriptions, premium flags and `payment.success` go back to a captured payment; an event of a captured payment is not acknowledged before this is settled, and brings the subscription about; the steps are those of `PaymentContract` |
| `questions_core` | 1 room after an earlier match of one of its players, 2 rounds, 3 questions, 2 failing commands or restarts, 2 counts in flight; 12 M states | `SeenOnlyAsFiller`, `NoRepeatUnlessReselected`, `QuestionsSuffice` | a question of a recorded match comes again only when a bucket is short; no question is put to a room twice, over all its loops, unless its list was replaced after the first pop; no loop runs dry unless its list was lost or short, or its rounds were counted before another loop took some |
| `aftermath_core` | 2 matches that share a player, `Keep` 1, a failing command or restart; 1.7 M states | `OnePushPerFlag`, `HistoryBounded`, `DeletedIsOld`, `QueueDrains` | a referrer hears of a flagged player once, whatever is requeued or redelivered; what is deleted was old for one of its players, and no player keeps more than he is owed; the queue empties once every event in it has its document |
| `referral_core` | 4 `ApplyCode` calls, a self-referral among the codes, 2 claims, a cap of 1, 2 failing commands, a restart; 195 000 states | `ReferralIsWhole`, `RefereeRewardedOnce`, `CapUnlessCrowded`, `BooksBalanceUnlessTorn` | event, referee's and referrer's reward exist together or a failure cut them apart; the unique index keeps a reward single; only overlapping calls exceed the cap or lose pending rewards |
| `wallet_core` | 2 joins over midnight, 3 entries to 2 tournaments of one place, a push, a reward, a failing command or restart; 8.0 M states | `QuotaHeld`, `TournamentHeld`, `FeeBuysPlace`, `CoinsHeld` | the quota, the places, the fees and the coins hold but for the requests that overlap |
| `accounts_core` | 1 registration, 2 sign-ins with one Google account, 2 `GetCode` calls, a seeded user, 4 codes, a failing command, symmetric; 1.6 M states | `TwinsMet`, `AnsweredCodeLasts`, `UndisturbedSucceeds` | only sign-ins that overlap make two accounts of a Google account; only `GetCode` calls that overlap replace a code that was answered; what nothing disturbs succeeds |
| `payment_doc_once` | two deliveries of one event | `NoSecondSubscription` | the first divergence below |

The types of `GameRoom`, `AnswerScoring`, `Matchmaking`, `Payment`, `Referral`, `Wallet`, `MatchAftermath`,
`QuestionBank` and `Accounts` are left to the proofs.

Bounds. `MaxRooms`, `MaxSelections`, `MaxDrops`, `MaxCrashes`, `MaxFaults`, `MaxRestarts`,
`MaxExpiries`, `MaxCounts`, `LastRoom`, `LastDay`, `MaxGifts` and the finite sets
of calls bound the runs, and nothing else does. Two players are enough for every
test of the code on `activeCount` (0, 1, more). Two room objects, two questions
and two connections of each player give a second loop that plays on with the
questions left or finds none, and a round that is not the last. What does not
fit into one run of five minutes is divided: `room_restart` has the second
connections, the second question and the mark that expires (`Perishable`), and
one stream may break (`MaxDrops`), since a restart or the end of a match ends
them all without that; `room_live` has the forfeits, the failing calls, the other
keys that expire and streams that break at will. A second selection
(`MaxSelections`) is in the proofs only; the second loop of `room_restart` closes
round 1 again without one. The proofs have all of it at once. Two answers for one slot, a restart and three faults give a duplicate, a
redelivery in every place, and all attempts failing. Three joins give two
attempts at a time, and a player who joins again while he is popped. In
`match_core` there are no streams, which do not touch the pool or the lock; in
`match_live` no faults, so that the third conjunct of `MatchFoundIsForMember`
applies, and the contract is that of a `Reliable` service; the proof of
`ContractKept` is for both.
In `payment_core` one order has a failed and a captured attempt with an event
each, so that a late failure meets a capture, and the second order is paid
beside it; two faults and a restart strand a payment in each of the ways there
are. Events are resent within one `Hooks` element until acknowledged; a
duplicate of an acknowledged event is in `payment_doc_once`.

In `questions_core` player a was asked one of the two easy questions in an
earlier match with somebody else, so that the exclusion matters; with the
questions of the room's own match on record no easy one is new, and the bucket is
short. The list may be selected, lost, and selected again, in the middle of a
loop as well, and with two counts in flight one stream may hold a late count
while another opens the room on a fresh one. Several rooms, which share the
consumer and the history, are in the proofs. In `aftermath_core` `Keep` is 1 for the code's 3: a
player's second match makes the first old, and two matches with one player in
common make a document old for one and new for the other. In `referral_core` a
cap of 1 (10 in the code) is reached by the first referral, and the four calls hold one user
with two codes and two users with one code. In `wallet_core` one free game,
one coin and one place put every counter at its limit after one step; two days
give one midnight. In `accounts_core` both sign-ins try the name that
the registration wants first, and four codes never run out, as the 31^6 of the code do not.

`CHECK_DEADLOCK FALSE` stands in all configurations because the calls are
finite: when all have been made and answered, the system rests.

Fairness. `GameRoom`: weak fairness of each loop, a goroutine that sleeps or
waits for a timer and is never blocked by another (broadcasts do not block,
mutexes are held for short sections); strong fairness of `TimerExpires`,
because the expired timer's channel stays ready and Go's `select` picks among
ready cases at random, while a tick in between makes the step briefly
unavailable. `AnswerScoring`: weak fairness of the consumer as a whole.
`Matchmaking`: weak fairness of handlers that have begun and of attempts, and
of the expiry of a lock. `Payment`: weak fairness of a call that has begun, and
of each event as a whole, because Razorpay resends what was not acknowledged.
`MatchAftermath`: weak fairness of the worker's next step; its loop does not
stop, and the container is started again when it dies
(`docker-compose.yml`, `restart: unless-stopped`). `QueueDrains` is conditional
on every pending event having its document with players, because the worker
requeues an event that has none for ever, ahead of all others; and the loss of
the AMQP channel, after which `main.go:92-96` starts no second consumer, is left
out. The other modules state safety only, and need no fairness.
Clients, failures and restarts owe nothing.

## What is proved

TLAPS proves the following for every value of the constants that satisfies the
named assumptions (`ConstantsAssumption`, `ScoringAssumption`,
`MatchmakingAssumption`, `PaymentAssumption`, `BankAssumption`,
`AftermathAssumption`, `ReferralAssumption`, `WalletAssumption`,
`AccountsAssumption`: the types of
the constants; finite sets of players, of joins and of questions; at least one
attempt, one free game, one place in a tournament; a cap above 0; a match needs
at least one player; the calls of different kinds are different).

| Theorem | States |
|---|---|
| `GameRoomProofs!TypeCorrect` | `Spec => []TypeOK` |
| `GameRoomProofs!HubOwnership` | `Spec => []LoopOwnsHub` |
| `GameRoomProofs!MutualExclusion` | `Spec => []OneLoopAtATime` |
| `GameRoomProofs!CompletedOnce` | `Spec => []RoundCompletedOnce` |
| `GameRoomProofs!FinishedOnce` | `Spec => []FinishedOncePerSelection` |
| `GameRoomProofs!EarlyExitWaits` | `Spec => EarlyExitWaitsForAsked` |
| `GameRoomProofs!ContractKept` | `Spec => ContractSpec` (refinement) |
| `GameRoomProofs!RecordsOrdered` | `Spec => []Contract!RecordsInOrder`, from the refinement |
| `AnswerScoringProofs!TypeCorrect` | `Spec => []TypeOK` |
| `AnswerScoringProofs!NoDoubleScoring` | `Spec => []ScoredOncePerSlip` |
| `AnswerScoringProofs!NoAnswerLost` | `Spec => LedgerSpec` (refinement) |
| `AnswerScoringProofs!AnswersAccounted` | `Spec => []Ledger!EveryAnswerAccounted`, from the refinement |
| `MatchmakingProofs!TypeCorrect` | `Spec => []TypeOK` |
| `MatchmakingProofs!LockHolds` | `Spec => []LockHeldUnlessExpired` |
| `MatchmakingProofs!SeatsBounded` | `Spec => []OneSeatPerJoin` |
| `MatchmakingProofs!MatchFoundSound` | `Spec => []MatchFoundIsForMember` |
| `MatchmakingProofs!ContractKept` | `Spec => ContractSpec` (refinement) |
| `MatchmakingProofs!PoolIsWatched` | `Quiet => (Spec => []PoolWatched)` |
| `PaymentProofs!TypeCorrect` | `Spec => []TypeOK` |
| `PaymentProofs!CapturesGranted` | `Spec => []CapturedIsGranted` |
| `PaymentProofs!SubscriptionsPaid` | `Spec => []SubscriptionIsPaid` |
| `PaymentProofs!AcknowledgedSettle` | `Spec => []AcknowledgedSettles` |
| `PaymentProofs!ContractKept` | `Spec => ContractSpec` (refinement) |
| `QuestionBankProofs!TypeCorrect` | `Spec => []TypeOK` |
| `QuestionBankProofs!SeenFillOnly` | `Spec => []SeenOnlyAsFiller` |
| `QuestionBankProofs!QuestionsUnique` | `Spec => []NoRepeatUnlessReselected` |
| `QuestionBankProofs!EnoughQuestions` | `Spec => []QuestionsSuffice` |
| `MatchAftermathProofs!TypeCorrect` | `Spec => []TypeOK` |
| `MatchAftermathProofs!PushesOnce` | `Spec => []OnePushPerFlag` |
| `MatchAftermathProofs!HistoriesBounded` | `Spec => []HistoryBounded` |
| `MatchAftermathProofs!OldOnesDeleted` | `Spec => []DeletedIsOld` |
| `ReferralProofs!TypeCorrect` | `Spec => []TypeOK` |
| `ReferralProofs!ReferralsAreWhole` | `Spec => []ReferralIsWhole` |
| `ReferralProofs!RefereesRewardedOnce` | `Spec => []RefereeRewardedOnce` |
| `ReferralProofs!CapHeld` | `Spec => []CapUnlessCrowded` |
| `ReferralProofs!BooksBalance` | `Spec => []BooksBalanceUnlessTorn` |
| `ReferralProofs!AccountTypes` | `AccountsSpec => []AccountsTypeOK` |
| `ReferralProofs!TwinsHaveMet` | `AccountsSpec => []TwinsMet` |
| `ReferralProofs!AnswersLast` | `AccountsSpec => []AnsweredCodeLasts` |
| `ReferralProofs!UndisturbedSucceed` | `CodesSuffice => (AccountsSpec => []UndisturbedSucceeds)` |
| `WalletProofs!TypeCorrect` | `Spec => []TypeOK` |
| `WalletProofs!QuotasHeld` | `Spec => []QuotaHeld` |
| `WalletProofs!TournamentsHeld` | `Spec => []TournamentHeld` |
| `WalletProofs!FeesBuyPlaces` | `Spec => []FeeBuysPlace` |
| `WalletProofs!CoinsAreHeld` | `Spec => []CoinsHeld` |

With these, every invariant and every action property that a run checks is a
theorem, and so are all four refinements (`LedgerSpec`, and `ContractSpec` of
`GameRoom`, of `Matchmaking` and of `Payment`). What an abstract specification
alone implies is proved of it, where few actions are to be looked at, and
carried over (`RecordsOrdered`, `AnswersAccounted`). Two theorems have a
hypothesis of their own. `UndisturbedSucceed`: there are at least as many codes
as documents ever made (`CodesSuffice`: the code draws one of 31^6).
`PoolIsWatched`: no call fails, no lock outlives its TTL, there is no restart,
`MinPlayers` is at most 2 and no more players exist than a room holds (`Quiet`,
the instance of `match_live`). Each is needed: a failed or lost attempt is not
repeated, players beyond a room's size wait for the next who joins, and with
`MinPlayers` 3 two players who join while the first is popped find two in the
pool, schedule nothing, and the first is added again with no attempt to come.
The code's constant is 2 (`matchmaking.go:28`); to raise it would take more than
changing the constant.

Why the invariants are strengthened:

* `TypeInv` of `GameRoom` adds `RoundInv`: a loop within or just after a round
  has `round <= Total`; without it the next increment leaves the type.
* `HubInv` adds `StartersHoldHub`: a stream between its look-up and its
  `startOnce` whose room has not started a loop holds the hub's room. Only the
  loop of a room takes it out of the hub, so that a loop starts only in the
  hub's room. This is what makes the per-object `sync.Once` sufficient for one
  loop *at a time*.
* `CompletedInv`: the publications of a round, and the one that is due (`Due`),
  are at most as many as its marks that have expired, and the one in Redis
  (`Mark`). With `OneLoopAtATime`, no second loop is about to publish.
* `FinishedInv`: as long as questions are left, or a running loop has popped
  one and not read the length of the list, one announcement fewer than
  selections has been made.
* `AudienceInv` and `TickInv` carry `EarlyExitWaitsForAsked`: whoever has got
  a question from room `o` and has not pressed the forfeit button is in
  `active[o]`, and at `tick` the count the loop has read is at least the number
  of those who still wait. Players join between the two reads of a tick only as
  new connections, which have not got the round's question, and leave `active`
  only by a forfeit. `SurplusCovers` is the counting: if `|W| <= |S|` then
  `|W \ S| <= |S \ W|`.
* `OrderInv` (while nothing fails and no mark expires): the marks in Redis are those of the first
  rounds up to some round; all rounds below the one a loop is in have theirs, and
  when a loop is about to publish, its round is the last that has one. So a loop
  that starts again from round 1 passes over the marked rounds in silence and
  goes on after them. The step correspondence of `ContractKept` (`RunStays`,
  `RunMoves`, `RunAlone`) needs `HubInv`, `CompletedInv` and `FinishedInv` beside it.
* `SlipInv`: past the test of `answers` the slot in hand has no mark, and the
  points of a slot exceed its slips, by one, only if the mark is there or about
  to be set.
* `DeliveryInv` and `ScoredInv`: queue and hand hold published answers, each
  once, except that an answer in hand is in the queue too when its connection is
  lost; an answer about to be acknowledged has points or concerns no question.
  The step correspondence of `NoAnswerLost` needs both.
* `NoRosterYet`: an attempt that may put players back has no roster yet. With
  it every step keeps a player's seats, moves one from the pool to an attempt or
  back, or adds a call and a place in the pool together (`Kept`, `Called`,
  `Taken`, `Returned`), and `SeatArithmetic` does the counting.
* `MemberInv`: a room is stored before it is announced or delivered,
  `playerChans[p]` is a stream of `p`, and every room in a channel is one that
  the stream's owner is in.
* `PairInv` carries the refinement of `PairingContract`: an attempt at its
  look-ups has at most `RoomSize` players in hand, and one that publishes has
  some (`SizeInv`), and a stream that still waits on its channel has been told of
  nothing (`ToldLast`). That the players of a new room have calls to give is
  `OneSeatPerJoin` one step earlier (`CreateForms`): a seat of an attempt
  becomes a seat in a room.
* `WatchInv`: while the lock's holder has popped, the players it will add again
  count as in the pool, and if there are enough of them together, somebody who
  joined under this very lock is still to come (`LaterComes`). He sleeps for the
  lock's TTL and so cannot lose to it; that is why an attempt may give up when
  it finds the lock taken. A holder that adds players again has too few of them
  (`FewReturn`), and with nothing expired it is at work (`HolderAtWork`).
* `CapturedIsGranted` is inductive given the types; `SettlingKept` says that a
  step which moves one call leaves the grants of all others alone.
* `PaidInv`: only payments that were captured are at the common steps, and past
  the upsert there is a subscription. `Lasting` (captured stays captured, a
  subscription stays, grants stay) carries both over the steps of others. The
  step correspondence with `PaymentContract` needs no more than `PaidInv`:
  `UpsertNames` shows that the insertion of a look-up that missed, however late,
  only adds a name, and a match only renames.
* `EventInv` carries `AcknowledgedSettles`: an order that can be paid is stored,
  so that the second `FindOne` of an event finds it; and an event about a failed
  payment never becomes one about a captured payment, because outcomes are final
  (`OutcomesStay`). `SettlingStep` says that what is settled, or about to be,
  remains so.

* `QuestionBankProofs!Inv`: `JobInv` says what is picked at each place: new to
  the players and as long as the buckets' shares, or some bucket was short;
  after the fill as long as the bank allows, unless the fill failed. `ListInv`
  carries length and distinctness over to the stored list, `CountInv` says that
  a count after which nothing was popped is at most the list's length, and
  `AskedInv` that a room was not asked what it has in hand, nor either what is
  still in its list. The lemmas on injective
  sequences (`InjectiveConcat`, `TailInjective`, ...) are stated for any set.
* `MatchAftermathProofs!Inv`: the worker has flagged the player it holds and not
  yet missed him (`JobInv`); what a loop has found for deletion is old
  (`DoomedInv`), and stays so, because matches are only added (`OldStaysOld`);
  without what is owed a player's history has `Keep` documents (`TrimmedInv`).
  That the `Keep` newest are no more than `Keep` needs the order of the
  documents (`NewestAreFew`).
* `ReferralProofs!IInv`: `Whole` ties the place of a call to its event and adds
  that there is one event per referee, which is what the index gives; `Room`
  says that a code whose calls have not overlapped has room for the one that is
  past the check; `Books` that a claim that nothing has overlapped holds what is
  pending.
* `ReferralProofs!AccountInv`: what any step of a call may do (`Moves`,
  `ActsOn`) keeps the others. `DocumentInv`: a creator inserts last, and a call
  at work on a document has found it. `MetInv`: calls under way at the same time
  have met. `TwinInv`: a sign-in past its look-up has met whoever inserted a
  document of its account since. `CodeInv`: a `GetCode` about to save saw no
  code, and whoever saved one since has met it. `UndisturbedInv` adds that what
  an undisturbed call looked up is still so; that drawing a code cannot fail for
  want of one is the pigeonhole lemma `HeldByAll`.
* `WalletProofs!IInv`: `Quota` says that what a game has read is still so unless
  its user is `loose`; `Crowd` and `Purse` that an entry on its way, if alone,
  still finds its place and its fee; `Fees` that a call about to be pushed has
  paid.

Only model-checked: the liveness properties (`LoopTerminates`,
`MatchEndReachesPlayers`, `EveryAnswerSettles`, `PoolDrains`,
`EveryCaptureGrants`, `QueueDrains`), which this prover does not reach.

## Divergences

The code does otherwise than a document, or a comment, says. The first is kept
as a run that ends in the counterexample. TLC gave a counterexample for each of
those marked (c) too, with the sentence stated as a property of these
modules; several of these properties still stand at the end of their module.

1. "No second subscription is created", and with two deliveries at the same
   moment "only one `InsertOne` succeeds" (`docs/DESIGN_QA.md:619-621`): the
   handlers upsert by `user_id`, and neither that field nor
   `razorpay_payment_id` has a unique index (`mongo-init/init.js:406-408`);
   two deliveries, or one and `VerifyPayment`, insert one each
   (`payment_doc_once`).
2. (c) "Called exactly once per room via sync.Once" (`quiz_handler.go:438`):
   `startOnce` is per `gameRoom`; after `hub.delete` the next stream of the
   `roomID` allocates another and starts a second loop.
3. (c) "early-exit when all CONNECTED players answered" (`quiz.go:130`): a tick
   compares two numbers; the submission of a player who has forfeited since
   makes up for one who has not answered. So does, after a restart, the
   submission of a player who answered the round in the loop before and has not
   come back: `submitted:{n}` outlives that loop. (The proof needed this case,
   which takes three players; `EarlyExitWaitsForAsked` counts both.)
4. (c) "Two independent idempotency guards prevent double-scoring"
   (`docs/DEMO_QA.md:103`): `UpdateScore` and the mark in `answers` are two
   commands and the error of the second is ignored. `ScoredOncePerSlip` is what
   holds instead.
5. (c) "tracks who is actively playing (not forfeited)" (`quiz_handler.go:37`):
   `addSub` makes a player who forfeited active again (line 58).
6. (c) "When a player connects after the game loop has started [...] the server
   immediately sends" the current question (`docs/MASTER_DOC.md:141-142`):
   nothing does; `getCurrentQuestion` (line 112) is never called.
7. (c) "The `gameRoom` still exists in the hub (until all players disconnect)"
   (`docs/DESIGN_QA.md:573`): the loop deletes it at its end (line 172), and a
   stream that had looked it up subscribes to a room that no loop serves.
8. (c) "If only 1 active player remains (all others have explicitly forfeited
   [...])" (`docs/DESIGN_QA.md:575`): also when the others have not connected by
   the end of the lobby (line 463).
9. (c) "If all players disconnect, game loop exits" (`docs/DEMO_QA.md:98`):
   `removeSub` leaves `active` alone, and the loop goes on asking.
10. (c) "increments `matches_played` and `matches_won` (for the winner)"
    (`docs/BUGS_AND_FIXES.md:395`): not for an auto-winner who has no
    leaderboard entry while another player has one (line 839).
11. (c) "All players receive MatchEnd when game finishes" (`README.md:345`): not
    when `RunRound` returns an error, as in a second loop that runs out of
    questions (line 480).
12. (c) "ACK/NACK with redelivery — critical for exactly-once scoring"
    (`docs/MASTER_DOC.md:220`): `correct_counts` is incremented again by each
    retry after it (`consumer.go:232`).
13. (c) "if the key already exists the answer is dropped silently"
    (`docs/architecture.md:96`): `SubmitAnswer` publishes it all the same
    (`quiz_handler.go:304`); the consumer scores the one it takes first.
14. (c) "Redis `EXPIRE` on the `player:{userId}` key handles this"
    (`docs/DESIGN_QA.md:99`, on leaving the pool): the sorted set keeps the
    player (`matchmaking.go:111`).
15. (c) "so only one goroutine executes the pairing logic at a time"
    (`docs/BUGS_AND_FIXES.md:86`): not past the lock's TTL, which is 10 s
    (`lock.go:12`), not the "30s" of `docs/MASTER_DOC.md:86`. `OneSeatPerJoin`
    holds all the same, because `ZPOPMIN` is atomic.
16. (c) "Notifies all waiting players" (`docs/MASTER_DOC.md:89`): `MatchFound` is
    dropped when a player's channel of capacity 4 is full of `WaitingUpdate`s
    (`matchmaking.go:434`).
17. (c) "`ClaimRewards` atomically claims all pending referral rewards"
    (`referral.go:380`): it reads the pending rewards, and in a second command
    adds what it has read and sets to 0 what is pending by then
    (`ClaimIsAtomic`).
18. (c) "if the code is already set, the UpdateOne below is a no-op"
    (`referral.go:162`): the update has no such condition
    (`AnsweredCodeIsKept`).
19. (c) "Non-fatal: if generation fails, the code stays empty" (`auth.go:91-92`):
    the sparse index holds the empty string too, and the second such
    registration is refused (`CodeIsOptional`, with two failing commands).
20. "Keeps only the most recent `keep` [...] for each player"
    (`quiz_handler.go:858`): what is old for one player is deleted for all of the
    match's players. `DeletedIsOld` is what holds.
21. "exactly-once delivery" of the first-match push (`consumer.go:16-17`): the
    flag is set before the push, so that it is at most once (`OnePushPerFlag`).
22. "safe to retry once" (`consumer.go:243`): the event is requeued each time,
    without a limit.
23. "limited to 1 quiz per day [...] increments atomically"
    (`matchmaking.go:448-450`): the constant is 5, and the counter is written
    from what was read before.
24. "prevent overwriting with stale data" (`user_stats.go:108-109`, on `$max`):
    a client whose copy is older than a payment restores the coins it spent.
25. "There is no way for the same question to appear twice"
    (`selection.go:30`): this holds of one selection, and a redelivered event
    selects again (`NoRepeatUnlessReselected`).
26. "If a user registered with email/password using the same email, Google login
    links to the existing account" (`docs/MASTER_DOC.md:376`): `Register` stores
    no e-mail, so that a password account is never found.
27. "non-fatal if publisher unavailable" (`webhook.go:226`): `main` hands a nil
    `*rabbitmq.Publisher` to `SetPublisher` when RabbitMQ is away at start-up;
    in the interface it is not nil, and the handler panics on it after the
    subscription is written. Razorpay sends the event again, finds it processed,
    and `payment.success` is never published. `PublishSuccess` has this step.

## Not modelled, and why

* Questions' content, points, ranks, response times: the properties do not tell
  them apart. `UpdateScore`'s tie-break within one script is atomic.
* The consumers of `round.completed`, of scoring-service's `match.finished` and
  of analytics only log. `GetLeaderboard` and quiz-service's own reader only
  read. `CalculateScore` is called by no component. The worker's consumer of
  `notification.*` serves events that nothing publishes, and its scheduler
  queries and sends.
* `Login`, `History`, `List`, `Detail`, profiles and the global leaderboard read;
  `ChangePassword` writes one field. Passwords and tokens carry no state of the
  protocol.
* Ratings per document: `updatePlayerRatings` increments fields of users; how
  often it runs for a match is `rated` in `GameRoom`.
* The Redis keys `user:*:daily_quota`, `user:*:plan` and `referral:code:*`: they
  are written and nothing reads them.
* A second document of a room whose loop ran twice, in `MatchAftermath`; the
  loss of the worker's AMQP channel; payloads that do not parse, which are
  acknowledged.
* The user interface; generated code; start-up and seed data.

## Plan

Written, in this order: `GameRoom` with its proofs (the core of the system),
`AnswerLedger` and `AnswerScoring` with theirs, `Matchmaking` and `Payment`,
then `Referral`, `Wallet`, `MatchAftermath` and `QuestionBank` with theirs, and
`Accounts`.

To come, the most important first:

1. A composition of `GameRoom` and `AnswerScoring` over `submitted`, `answers`
   and the leaderboard: what the loop reads 2 s after a round.
2. `GameClient`: the Flutter provider and `ReconnectService` against the events
   that `GameRoom` sends.
