------------------------------- MODULE Payment -------------------------------
(***************************************************************************)
(* payment-service: CreateOrder, VerifyPayment and the webhook, which meet *)
(* in the documents of the collections payments, subscriptions and users.  *)
(*                                                                         *)
(* One MongoDB command, one publish or one call of Razorpay is one step.   *)
(* Signatures are those of events Razorpay has seen.  Plans, amounts and   *)
(* dates are abstract: a subscription does not run out.                    *)
(***************************************************************************)
EXTENDS Naturals, FiniteSets

CONSTANTS
  Users,
  Orders,       \* CreateOrder calls that may be made, and their orders
  Buyer,        \* the user making each
  Payments,     \* attempts to pay an order at Razorpay
  OrderOf,      \* the order of each
  Verifies,     \* VerifyPayment calls that may be made
  Hooks,        \* webhook events that may be sent, duplicates included
  PayOf,        \* the payment a call or an event is about
  NoPay,        \* no payment
  MaxFaults,    \* bound: failed commands, publishes and requests
  MaxRestarts   \* bound: restarts of payment-service

Calls == Verifies \cup Hooks

ASSUME PaymentAssumption ==
  /\ Buyer \in [Orders -> Users] /\ OrderOf \in [Payments -> Orders]
  /\ PayOf \in [Calls -> Payments] /\ Verifies \cap Hooks = {}
  /\ NoPay \notin Payments
  /\ MaxFaults \in Nat /\ MaxRestarts \in Nat

VARIABLES
  order,      \* how far each CreateOrder call is
  pay,        \* what Razorpay knows of each payment
  doc,        \* the payments document of each order
  at,         \* the place of each VerifyPayment call and webhook event
  subs,       \* the subscriptions documents of each user, by the call that
              \* inserted it, with the payment it names
  premium,    \* users with the premium flag
  announced,  \* payments for which payment.success was published
  granted,    \* payments for which a subscription was written
  stranded,   \* payments that a failure or restart left in a state in which
              \* a later call or event finds nothing to do
  faults, restarts

accountVars == <<subs, premium, announced>>
boundVars   == <<faults, restarts>>
vars == <<order, pay, doc, at, accountVars, granted, stranded, boundVars>>

\* A document names a payment once an outcome is recorded.
Unpaid  == [status : {"none", "pending"}, pid : {NoPay}]
Settled == [status : {"captured", "failed"}, pid : Payments]

Processing == {"check", "find", "capture", "upsert", "insert", "premium",
               "publish", "record"}

TypeOK ==
  /\ order \in [Orders -> {"idle", "checked", "ordered", "placed", "refused"}]
  /\ pay \in [Payments -> {"none", "failed", "captured"}]
  /\ doc \in [Orders -> Unpaid \cup Settled]
  /\ at \in [Calls -> Processing \cup {"idle", "ok", "refused"}]
  /\ subs \in [Users -> SUBSET [by : Calls, pid : Payments]]
  /\ premium \subseteq Users /\ announced \subseteq Payments
  /\ granted \subseteq Payments /\ stranded \subseteq Payments
  /\ faults \in 0..MaxFaults /\ restarts \in 0..MaxRestarts

Init ==
  /\ order = [o \in Orders |-> "idle"]
  /\ pay = [p \in Payments |-> "none"]
  /\ doc = [o \in Orders |-> [status |-> "none", pid |-> NoPay]]
  /\ at = [c \in Calls |-> "idle"]
  /\ subs = [u \in Users |-> {}] /\ premium = {} /\ announced = {}
  /\ granted = {} /\ stranded = {}
  /\ faults = 0 /\ restarts = 0

\* A request to MongoDB, RabbitMQ or Razorpay succeeds, or fails within the
\* bound; the 5 s of the context and a client that goes away count as that.
Works == UNCHANGED boundVars
Fails == faults < MaxFaults /\ faults' = faults + 1 /\ UNCHANGED restarts

----------------------------------------------------------------------------
(* CreateOrder.                                                            *)

OrderTo(o, place) == order' = [order EXCEPT ![o] = place]

OrderOnly == UNCHANGED <<pay, at, accountVars, granted, stranded>>

\* Wrong: the subscription that was found is not minded.
OrderCheck_Unminded(o) ==
  /\ order[o] = "idle" /\ Works /\ OrderTo(o, "checked")
  /\ OrderOnly /\ UNCHANGED doc

\* The look-up of an active subscription.
OrderCheck(o) ==
  /\ order[o] = "idle"
  /\ \/ Works /\ OrderTo(o, IF subs[Buyer[o]] = {} THEN "checked"
                                                    ELSE "refused")
     \/ Fails /\ OrderTo(o, "refused")
  /\ OrderOnly /\ UNCHANGED doc

\* createRazorpayOrder
OrderRazorpay(o) ==
  /\ order[o] = "checked"
  /\ \/ Works /\ OrderTo(o, "ordered")
     \/ Fails /\ OrderTo(o, "refused")
  /\ OrderOnly /\ UNCHANGED doc

\* The document is inserted and the client gets the order's ID.
OrderInsert(o) ==
  /\ order[o] = "ordered"
  /\ LET inserted == [doc EXCEPT ![o] = [status |-> "pending", pid |-> NoPay]]
     IN  \/ Works /\ OrderTo(o, "placed") /\ doc' = inserted
         \/ Fails /\ OrderTo(o, "refused") /\ doc' \in {doc, inserted}
  /\ OrderOnly

----------------------------------------------------------------------------
(* Razorpay: an order is paid once, possibly after failed attempts.        *)

Pay(p) ==
  /\ order[OrderOf[p]] = "placed" /\ pay[p] = "none"
  /\ \A q \in Payments : OrderOf[q] = OrderOf[p] => pay[q] # "captured"
  /\ \E outcome \in {"failed", "captured"} :
       pay' = [pay EXCEPT ![p] = outcome]
  /\ UNCHANGED <<order, doc, at, accountVars, granted, stranded, boundVars>>

----------------------------------------------------------------------------
(* VerifyPayment and handlePaymentCaptured.                                *)

CallTo(c, place) == at' = [at EXCEPT ![c] = place]

\* Wrong: the webhook answers an error with 200.
Refuse_Acknowledged(c) == CallTo(c, IF c \in Hooks THEN "ok" ELSE "refused")

\* Status 500: the client gives up, Razorpay sends the event again.
Refuse(c) == CallTo(c, IF c \in Hooks THEN "idle" ELSE "refused")

Strand(S) == stranded' = stranded \cup S

CallOnly == UNCHANGED <<order, pay>>

\* Checkout succeeded, and the client calls once.
VerifyBegin(c) ==
  /\ c \in Verifies /\ at[c] = "idle" /\ pay[PayOf[c]] = "captured"
  /\ CallTo(c, "check")
  /\ CallOnly
  /\ UNCHANGED <<doc, accountVars, granted, stranded, boundVars>>

\* Wrong: every event is taken for payment.captured.
HookBegin_AnyEvent(c) ==
  /\ c \in Hooks /\ at[c] = "idle" /\ pay[PayOf[c]] # "none"
  /\ CallTo(c, "check")
  /\ CallOnly
  /\ UNCHANGED <<doc, accountVars, granted, stranded, boundVars>>

\* HandleWebhook: Razorpay sends an event until it is acknowledged, in no
\* order.
HookBegin(c) ==
  /\ c \in Hooks /\ at[c] = "idle" /\ pay[PayOf[c]] # "none"
  /\ CallTo(c, IF pay[PayOf[c]] = "captured" THEN "check" ELSE "record")
  /\ CallOnly
  /\ UNCHANGED <<doc, accountVars, granted, stranded, boundVars>>

\* Wrong: an order with an outcome is taken for processed, a failed one too.
CheckProcessed_AnyOutcome(c) ==
  /\ at[c] = "check"
  /\ \/ Works /\ CallTo(c, IF doc[OrderOf[PayOf[c]]].status = "pending"
                             THEN "find" ELSE "ok")
     \/ Fails /\ Refuse(c)
  /\ CallOnly /\ UNCHANGED <<doc, accountVars, granted, stranded>>

\* The first FindOne: has this payment been captured already?
CheckProcessed(c) ==
  /\ at[c] = "check"
  /\ \/ Works /\ CallTo(c, IF \E o \in Orders : doc[o] =
                                [status |-> "captured", pid |-> PayOf[c]]
                             THEN "ok" ELSE "find")
     \/ Fails /\ Refuse(c)
  /\ CallOnly /\ UNCHANGED <<doc, accountVars, granted, stranded>>

\* The second FindOne.  Its error of any kind is taken for "no such order",
\* which the webhook acknowledges.
FindOrder(c) ==
  /\ at[c] = "find"
  /\ LET notFound == IF c \in Hooks THEN "ok" ELSE "refused"
     IN  \/ /\ Works /\ UNCHANGED stranded
            /\ CallTo(c, IF doc[OrderOf[PayOf[c]]].status = "none"
                           THEN notFound ELSE "capture")
         \/ Fails /\ CallTo(c, notFound) /\ Strand({PayOf[e] : e \in {c} \cap Hooks})
  /\ CallOnly /\ UNCHANGED <<doc, accountVars, granted>>

Captured(c) ==
  [doc EXCEPT ![OrderOf[PayOf[c]]] = [status |-> "captured", pid |-> PayOf[c]]]

\* Wrong: the capture is taken for the whole of it.
Capture_NoGrant(c) ==
  /\ at[c] = "capture" /\ Works
  /\ doc' = Captured(c) /\ CallTo(c, "premium")
  /\ CallOnly /\ UNCHANGED <<accountVars, granted, stranded>>

\* The document becomes captured, whatever it was.  When the reply is lost
\* it is, and the call ends.
Capture(c) ==
  /\ at[c] = "capture"
  /\ \/ /\ Works /\ doc' = Captured(c)
        /\ CallTo(c, "upsert") /\ UNCHANGED stranded
     \/ /\ Fails /\ Refuse(c)
        /\ \/ UNCHANGED <<doc, stranded>>
           \/ doc' = Captured(c) /\ Strand({PayOf[c]})
  /\ CallOnly /\ UNCHANGED <<accountVars, granted>>

----------------------------------------------------------------------------
(* The upsert of the subscription, and what follows it.                    *)

BuyerOf(c) == Buyer[OrderOf[PayOf[c]]]

\* What the user's documents may be after the upsert: without a unique index
\* on user_id, an upsert that has found none inserts one, whatever another
\* has inserted meanwhile; else the first found is updated.
Upserted(c) ==
  LET mine == subs[BuyerOf(c)]
  IN  IF at[c] = "insert" THEN {mine \cup {[by |-> c, pid |-> PayOf[c]]}}
      ELSE {(mine \ {d}) \cup {[d EXCEPT !.pid = PayOf[c]]} : d \in mine}

UpsertMiss(c) ==
  /\ at[c] = "upsert" /\ subs[BuyerOf(c)] = {}
  /\ CallTo(c, "insert")
  /\ CallOnly
  /\ UNCHANGED <<doc, accountVars, granted, stranded, boundVars>>

UpsertWrite(c) ==
  /\ at[c] \in {"upsert", "insert"}
  /\ \E S \in Upserted(c) :
       \/ /\ subs' = [subs EXCEPT ![BuyerOf(c)] = S]
          /\ granted' = granted \cup {PayOf[c]} /\ UNCHANGED stranded
          /\ \/ Works /\ CallTo(c, "premium")
             \/ Fails /\ Refuse(c)
       \/ /\ Fails /\ Refuse(c) /\ Strand({PayOf[c]})
          /\ UNCHANGED <<subs, granted>>
  /\ CallOnly /\ UNCHANGED <<doc, premium, announced>>

\* users.premium; an error is only logged.
SetPremium(c) ==
  /\ at[c] = "premium" /\ CallTo(c, IF c \in Hooks THEN "publish" ELSE "ok")
  /\ \/ Works /\ premium' = premium \cup {BuyerOf(c)}
     \/ Fails /\ UNCHANGED premium
  /\ CallOnly /\ UNCHANGED <<doc, subs, announced, granted, stranded>>

\* payment.success; an error is only logged.  Without a connection at startup
\* the interface holds a nil *Publisher, which is not nil: the handler panics,
\* net/http closes the connection, and Razorpay sends the event again.
PublishSuccess(c) ==
  /\ at[c] = "publish"
  /\ \/ Works /\ CallTo(c, "ok") /\ announced' = announced \cup {PayOf[c]}
     \/ Fails /\ (CallTo(c, "ok") \/ Refuse(c)) /\ UNCHANGED announced
  /\ CallOnly /\ UNCHANGED <<doc, subs, premium, granted, stranded>>

\* handlePaymentFailed: the order's document becomes failed, whatever it was.
RecordFailure(c) ==
  /\ at[c] = "record"
  /\ LET recorded == [doc EXCEPT ![OrderOf[PayOf[c]]] =
                         [status |-> "failed", pid |-> PayOf[c]]]
     IN  \/ Works /\ CallTo(c, "ok") /\ doc' = recorded
         \/ Fails /\ Refuse(c) /\ doc' \in {doc, recorded}
  /\ CallOnly /\ UNCHANGED <<accountVars, granted, stranded>>

----------------------------------------------------------------------------
(* The environment.                                                        *)

\* payment-service restarts: calls end, Razorpay sends its events again.
Restart ==
  /\ restarts < MaxRestarts /\ restarts' = restarts + 1
  /\ order' = [o \in Orders |-> IF order[o] \in {"checked", "ordered"}
                                  THEN "refused" ELSE order[o]]
  /\ at' = [c \in Calls |->
              IF at[c] \in Processing
                THEN IF c \in Hooks THEN "idle" ELSE "refused"
                ELSE at[c]]
  /\ Strand({PayOf[c] : c \in {x \in Calls : at[x] \in {"upsert", "insert"}}})
  /\ UNCHANGED <<pay, doc, accountVars, granted, faults>>

----------------------------------------------------------------------------
OrderStep(o) == OrderCheck(o) \/ OrderRazorpay(o) \/ OrderInsert(o)

\* What VerifyPayment and handlePaymentCaptured have in common.
ProcessStep(c) ==
  \/ CheckProcessed(c) \/ FindOrder(c) \/ Capture(c)
  \/ UpsertMiss(c) \/ UpsertWrite(c) \/ SetPremium(c)

VerifyStep(c) == VerifyBegin(c) \/ (c \in Verifies /\ ProcessStep(c))

HookStep(c) ==
  \/ HookBegin(c) \/ (c \in Hooks /\ ProcessStep(c))
  \/ PublishSuccess(c) \/ RecordFailure(c)

Next ==
  \/ \E o \in Orders : OrderStep(o)
  \/ \E p \in Payments : Pay(p)
  \/ \E c \in Calls : VerifyStep(c) \/ HookStep(c)
  \/ Restart

Spec == Init /\ [][Next]_vars

\* Handlers that have begun go on, and Razorpay keeps sending an event that
\* was not acknowledged.  Clients owe nothing.
FairSpec == /\ Spec
            /\ \A c \in Verifies : WF_vars(ProcessStep(c))
            /\ \A c \in Hooks : WF_vars(HookStep(c))

----------------------------------------------------------------------------
(* What holds.                                                             *)

\* A payment whose document says captured, so that every later call and event
\* about it ends with "already processed", has got its buyer a subscription,
\* or a call is about to write one, or a failure between the two writes has
\* stranded it (webhook.go:136-215, payment.go:434-493).
CapturedIsGranted ==
  \A o \in Orders : doc[o].status = "captured" =>
    \/ doc[o].pid \in granted \cup stranded
    \/ \E c \in Calls : PayOf[c] = doc[o].pid /\ at[c] \in {"upsert", "insert"}

\* A subscription names a payment that Razorpay has captured for an order of
\* its user, and so does whatever follows from it: the premium flag and
\* payment.success come with a subscription, in every interleaving of calls
\* and failed and captured events (webhook.go:104-114, 190-240).
SubscriptionIsPaid ==
  /\ \A u \in Users : \A d \in subs[u] :
       pay[d.pid] = "captured" /\ Buyer[OrderOf[d.pid]] = u
  /\ \A u \in premium : subs[u] # {}
  /\ announced \subseteq granted

Contract == INSTANCE PaymentContract WITH
  open   <- {o \in Orders : order[o] \in {"checked", "ordered"}},
  placed <- {o \in Orders : order[o] = "placed"},
  paid   <- {p \in Payments : pay[p] = "captured"},
  named  <- [u \in Users |-> {d.pid : d \in subs[u]}]

\* Orders, payments, subscriptions, flags and events follow each other as
\* PaymentContract says, through every interleaving, duplicate, failure and
\* restart (payment.go:143-275, 406-506, webhook.go:104-272).
ContractSpec == Contract!Spec

\* What Razorpay sends no more, because it was acknowledged, left nothing to be
\* done: the payment has its subscription, or another call is about to write it
\* (which "already processed" does not wait for), or a failure stranded it
\* (webhook.go:136-162, 226-243).
AcknowledgedSettles ==
  \A h \in Hooks : at[h] = "ok" /\ pay[PayOf[h]] = "captured" =>
    \/ PayOf[h] \in granted \cup stranded
    \/ \E c \in Calls : PayOf[c] = PayOf[h] /\ at[c] \in {"upsert", "insert"}

\* A payment that was captured gets its buyer a subscription, with or without
\* the client's call, unless a failure strands it: not at the first FindOne,
\* before the capture, nor in a restart there.
EveryCaptureGrants ==
  \A h \in Hooks :
    pay[PayOf[h]] = "captured" ~> PayOf[h] \in granted \cup stranded

----------------------------------------------------------------------------
(* What the documents say, and the code does not do.                       *)

\* "No second subscription is created", also when two deliveries "arrive at
\* the exact same millisecond" (DESIGN_QA.md:619-621).
NoSecondSubscription == \A u \in Users : Cardinality(subs[u]) <= 1
=============================================================================
