---------------------------- MODULE PaymentProofs ----------------------------
(***************************************************************************)
(* Proofs about Payment, for any users, orders, calls, events and bounds.  *)
(***************************************************************************)
EXTENDS Payment, TLAPS

----------------------------------------------------------------------------
(* Types.                                                                  *)

LEMMA TypeInit == Init => TypeOK
BY PaymentAssumption DEF Init, TypeOK, Unpaid

\* What every step of a call does to its place.
LEMMA CallType ==
  ASSUME TypeOK, NEW c \in Calls,
         NEW place \in Processing \cup {"idle", "ok", "refused"},
         CallTo(c, place)
  PROVE  at' \in [Calls -> Processing \cup {"idle", "ok", "refused"}]
BY DEF CallTo, TypeOK

LEMMA RefuseType ==
  ASSUME TypeOK, NEW c \in Calls, Refuse(c)
  PROVE  at' \in [Calls -> Processing \cup {"idle", "ok", "refused"}]
BY DEF Refuse, CallTo, TypeOK

LEMMA BoundType ==
  ASSUME TypeOK, Works \/ Fails
  PROVE  faults' \in 0..MaxFaults /\ restarts' \in 0..MaxRestarts
BY PaymentAssumption DEF TypeOK, Works, Fails, boundVars

LEMMA PlaceOfCall ==
  ASSUME NEW c \in Calls
  PROVE  PayOf[c] \in Payments /\ OrderOf[PayOf[c]] \in Orders
         /\ BuyerOf(c) \in Users
BY PaymentAssumption DEF BuyerOf

LEMMA OrderType ==
  ASSUME TypeOK, NEW o \in Orders, OrderStep(o)
  PROVE  TypeOK'
<1> USE PaymentAssumption
     DEF OrderTo, OrderOnly, accountVars
<1>1. CASE OrderCheck(o)
  BY <1>1, BoundType DEF OrderCheck, TypeOK
<1>2. CASE OrderRazorpay(o)
  BY <1>2, BoundType DEF OrderRazorpay, TypeOK
<1>3. CASE OrderInsert(o)
  <2>1. [status |-> "pending", pid |-> NoPay] \in Unpaid
    BY DEF Unpaid
  <2>2. order' \in [Orders -> {"idle", "checked", "ordered", "placed",
                               "refused"}]
    BY <1>3 DEF OrderInsert, TypeOK
  <2>3. doc' \in [Orders -> Unpaid \cup Settled]
    BY <1>3, <2>1 DEF OrderInsert, TypeOK
  <2> QED BY <1>3, <2>2, <2>3, BoundType DEF OrderInsert, TypeOK
<1> QED BY <1>1, <1>2, <1>3 DEF OrderStep

LEMMA ReadType ==
  ASSUME TypeOK, NEW c \in Calls,
         \/ VerifyBegin(c) \/ HookBegin(c)
         \/ CheckProcessed(c) \/ FindOrder(c) \/ UpsertMiss(c)
  PROVE  TypeOK'
<1> USE DEF CallOnly, accountVars, boundVars
<1>1. CASE VerifyBegin(c) \/ HookBegin(c) \/ UpsertMiss(c)
  <2>1. at' \in [Calls -> Processing \cup {"idle", "ok", "refused"}]
    BY <1>1 DEF VerifyBegin, HookBegin, UpsertMiss, CallTo, TypeOK, Processing
  <2> QED BY <1>1, <2>1 DEF VerifyBegin, HookBegin, UpsertMiss, TypeOK
<1>2. CASE CheckProcessed(c)
  <2>1. at' \in [Calls -> Processing \cup {"idle", "ok", "refused"}]
    BY <1>2, RefuseType DEF CheckProcessed, CallTo, TypeOK, Processing
  <2> QED BY <1>2, <2>1, BoundType DEF CheckProcessed, TypeOK
<1>3. CASE FindOrder(c)
  <2>1. at' \in [Calls -> Processing \cup {"idle", "ok", "refused"}]
    BY <1>3 DEF FindOrder, CallTo, TypeOK, Processing
  <2>2. stranded' \subseteq Payments
    BY <1>3, PlaceOfCall DEF FindOrder, Strand, TypeOK
  <2> QED BY <1>3, <2>1, <2>2, BoundType DEF FindOrder, TypeOK
<1> QED BY <1>1, <1>2, <1>3

LEMMA WriteType ==
  ASSUME TypeOK, NEW c \in Calls,
         Capture(c) \/ UpsertWrite(c) \/ SetPremium(c)
  PROVE  TypeOK'
<1> USE PlaceOfCall DEF CallOnly, accountVars
<1>1. CASE Capture(c)
  <2>1. at' \in [Calls -> Processing \cup {"idle", "ok", "refused"}]
    BY <1>1, RefuseType DEF Capture, CallTo, TypeOK, Processing
  <2>2. [status |-> "captured", pid |-> PayOf[c]] \in Settled
    BY DEF Settled
  <2>3. doc' \in [Orders -> Unpaid \cup Settled]
    BY <1>1, <2>2 DEF Capture, Captured, TypeOK
  <2>4. stranded' \subseteq Payments
    BY <1>1 DEF Capture, Strand, TypeOK
  <2> QED BY <1>1, <2>1, <2>3, <2>4, BoundType DEF Capture, TypeOK
<1>2. CASE UpsertWrite(c)
  <2>1. at' \in [Calls -> Processing \cup {"idle", "ok", "refused"}]
    BY <1>2, RefuseType DEF UpsertWrite, CallTo, TypeOK, Processing
  <2>2. \A S \in Upserted(c) : S \subseteq [by : Calls, pid : Payments]
    BY DEF Upserted, TypeOK
  <2>3. subs' \in [Users -> SUBSET [by : Calls, pid : Payments]]
    BY <1>2, <2>2 DEF UpsertWrite, TypeOK
  <2>4. stranded' \subseteq Payments /\ granted' \subseteq Payments
    BY <1>2 DEF UpsertWrite, Strand, TypeOK
  <2> QED BY <1>2, <2>1, <2>3, <2>4, BoundType DEF UpsertWrite, TypeOK
<1>3. CASE SetPremium(c)
  <2>1. at' \in [Calls -> Processing \cup {"idle", "ok", "refused"}]
    BY <1>3 DEF SetPremium, CallTo, TypeOK, Processing
  <2> QED BY <1>3, <2>1, BoundType DEF SetPremium, TypeOK
<1> QED BY <1>1, <1>2, <1>3

LEMMA HookType ==
  ASSUME TypeOK, NEW c \in Calls, PublishSuccess(c) \/ RecordFailure(c)
  PROVE  TypeOK'
<1> USE PlaceOfCall DEF CallOnly, accountVars
<1>1. CASE PublishSuccess(c)
  <2>1. at' \in [Calls -> Processing \cup {"idle", "ok", "refused"}]
    BY <1>1, RefuseType DEF PublishSuccess, CallTo, TypeOK
  <2> QED BY <1>1, <2>1, BoundType DEF PublishSuccess, TypeOK
<1>2. CASE RecordFailure(c)
  <2>1. at' \in [Calls -> Processing \cup {"idle", "ok", "refused"}]
    BY <1>2, RefuseType DEF RecordFailure, CallTo, TypeOK
  <2>2. [status |-> "failed", pid |-> PayOf[c]] \in Settled
    BY DEF Settled
  <2>3. doc' \in [Orders -> Unpaid \cup Settled]
    BY <1>2, <2>2 DEF RecordFailure, TypeOK
  <2> QED BY <1>2, <2>1, <2>3, BoundType DEF RecordFailure, TypeOK
<1> QED BY <1>1, <1>2

LEMMA TypeStep == TypeOK /\ [Next]_vars => TypeOK'
<1> SUFFICES ASSUME TypeOK, [Next]_vars
             PROVE  TypeOK'
  OBVIOUS
<1>1. ASSUME NEW o \in Orders, OrderStep(o)
      PROVE  TypeOK'
  BY <1>1, OrderType
<1>2. ASSUME NEW p \in Payments, Pay(p)
      PROVE  TypeOK'
  BY <1>2 DEF Pay, TypeOK, accountVars, boundVars
<1>3. ASSUME NEW c \in Calls, VerifyStep(c) \/ HookStep(c)
      PROVE  TypeOK'
  BY <1>3, ReadType, WriteType, HookType
  DEF VerifyStep, HookStep, ProcessStep
<1>4. CASE Restart
  <2>1. order' \in [Orders -> {"idle", "checked", "ordered", "placed",
                               "refused"}]
    BY <1>4 DEF Restart, TypeOK
  <2>2. at' \in [Calls -> Processing \cup {"idle", "ok", "refused"}]
    BY <1>4 DEF Restart, TypeOK
  <2>3. stranded' \subseteq Payments
    BY <1>4, PlaceOfCall DEF Restart, Strand, TypeOK
  <2> QED
    BY <1>4, <2>1, <2>2, <2>3, PaymentAssumption
    DEF Restart, TypeOK, accountVars
<1>5. CASE UNCHANGED vars
  BY <1>5 DEF TypeOK, vars, accountVars, boundVars
<1> QED BY <1>1, <1>2, <1>3, <1>4, <1>5 DEF Next

\* The variables keep their types: every document that records an outcome
\* names the payment (webhook.go:166-174, 256-263).
THEOREM TypeCorrect == Spec => []TypeOK
BY TypeInit, TypeStep, PTL DEF Spec

----------------------------------------------------------------------------
(* A captured payment is granted.  Every step leaves the grants of others   *)
(* and their calls alone, which each case below uses.                       *)

Granting == {"upsert", "insert"}

\* p is granted, stranded, or about to be granted by a call.
Settling(p) ==
  \/ p \in granted \cup stranded
  \/ \E c \in Calls : PayOf[c] = p /\ at[c] \in Granting

LEMMA GrantParts ==
  CapturedIsGranted <=>
    \A o \in Orders : doc[o].status = "captured" => Settling(doc[o].pid)
BY DEF CapturedIsGranted, Settling, Granting

\* A step that strands what it stops, and moves no other call, keeps what
\* settles settling.
LEMMA SettlingKept ==
  ASSUME TypeOK, NEW c \in Calls, NEW p \in Payments, Settling(p),
         granted \subseteq granted', stranded \subseteq stranded',
         \A x \in Calls \ {c} : at'[x] = at[x],
         at[c] \in Granting =>
           at'[c] \in Granting \/ PayOf[c] \in granted' \cup stranded'
  PROVE  Settling(p)'
BY DEF Settling

LEMMA SettlingStep ==
  ASSUME TypeOK, [Next]_vars, NEW p \in Payments, Settling(p)
  PROVE  Settling(p)'
<1> USE PlaceOfCall DEF CallOnly, accountVars
<1>1. CASE UNCHANGED <<at, granted, stranded>>
  BY <1>1 DEF Settling
<1>2. ASSUME \/ \E o \in Orders : OrderStep(o)
             \/ \E q \in Payments : Pay(q)
             \/ UNCHANGED vars
      PROVE  UNCHANGED <<at, granted, stranded>>
  BY <1>2
  DEF OrderStep, OrderCheck, OrderRazorpay, OrderInsert, OrderOnly, Pay, vars
<1>3. ASSUME NEW c \in Calls,
             \/ VerifyBegin(c) \/ HookBegin(c) \/ CheckProcessed(c)
             \/ FindOrder(c) \/ UpsertMiss(c)
      PROVE  Settling(p)'
  <2>1. granted' = granted /\ stranded \subseteq stranded'
    BY <1>3
    DEF VerifyBegin, HookBegin, CheckProcessed, FindOrder, UpsertMiss, Strand
  <2>2. \A x \in Calls \ {c} : at'[x] = at[x]
    BY <1>3
    DEF VerifyBegin, HookBegin, CheckProcessed, FindOrder, UpsertMiss, CallTo,
        Refuse, TypeOK
  <2>3. at[c] \in Granting => at'[c] \in Granting
    BY <1>3
    DEF VerifyBegin, HookBegin, CheckProcessed, FindOrder, UpsertMiss, CallTo,
        Granting, TypeOK
  <2> QED BY <2>1, <2>2, <2>3, SettlingKept
<1>4. ASSUME NEW c \in Calls,
             Capture(c) \/ SetPremium(c) \/ PublishSuccess(c) \/ RecordFailure(c)
      PROVE  Settling(p)'
  <2>1. at[c] \notin Granting /\ granted' = granted
        /\ stranded \subseteq stranded'
    BY <1>4
    DEF Capture, SetPremium, PublishSuccess, RecordFailure, Granting, Strand
  <2>2. \A x \in Calls \ {c} : at'[x] = at[x]
    BY <1>4
    DEF Capture, SetPremium, PublishSuccess, RecordFailure, CallTo, Refuse, TypeOK
  <2> QED BY <2>1, <2>2, SettlingKept
<1>5. ASSUME NEW c \in Calls, UpsertWrite(c)
      PROVE  Settling(p)'
  <2>1. granted \subseteq granted' /\ stranded \subseteq stranded'
        /\ PayOf[c] \in granted' \cup stranded'
    BY <1>5 DEF UpsertWrite, Strand
  <2>2. \A x \in Calls \ {c} : at'[x] = at[x]
    BY <1>5 DEF UpsertWrite, CallTo, Refuse, TypeOK
  <2> QED BY <2>1, <2>2, SettlingKept
<1>6. CASE Restart
  <2>1. \A c \in Calls : at[c] \in Granting => PayOf[c] \in stranded'
    BY <1>6 DEF Restart, Strand, Granting
  <2>2. granted' = granted /\ stranded \subseteq stranded'
    BY <1>6 DEF Restart, Strand
  <2> QED BY <2>1, <2>2 DEF Settling
<1> QED
  BY <1>1, <1>2, <1>3, <1>4, <1>5, <1>6
  DEF Next, VerifyStep, HookStep, ProcessStep

\* A document comes to be captured in one way only.
LEMMA GrantStep ==
  ASSUME TypeOK, CapturedIsGranted, [Next]_vars
  PROVE  CapturedIsGranted'
<1> USE PlaceOfCall
<1> SUFFICES ASSUME NEW o \in Orders, doc'[o].status = "captured"
             PROVE  Settling(doc[o].pid)'
  BY DEF CapturedIsGranted, Settling, Granting
<1>1. CASE doc'[o] = doc[o]
  <2>1. doc[o].pid \in Payments /\ Settling(doc[o].pid)
    BY <1>1, GrantParts DEF TypeOK, Unpaid, Settled
  <2>2. PICK p \in Payments : p = doc[o].pid
    BY <2>1
  <2>3. Settling(p)'
    BY <2>1, <2>2, SettlingStep
  <2> QED
    BY <1>1, <2>2, <2>3 DEF Settling
<1>2. CASE doc'[o] # doc[o]
  <2>1. PICK c \in Calls : Capture(c)
    <3>1. ASSUME NEW q \in Orders, OrderStep(q)
          PROVE  FALSE
      BY <1>2, <3>1 DEF OrderStep, OrderCheck, OrderRazorpay, OrderInsert, TypeOK
    <3>2. ASSUME NEW c \in Calls, RecordFailure(c)
          PROVE  FALSE
      BY <1>2, <3>2 DEF RecordFailure, TypeOK
    <3>3. ASSUME NEW c \in Calls,
                 \/ VerifyBegin(c) \/ HookBegin(c) \/ CheckProcessed(c)
                 \/ FindOrder(c) \/ UpsertMiss(c) \/ UpsertWrite(c)
                 \/ SetPremium(c) \/ PublishSuccess(c)
          PROVE  FALSE
      BY <1>2, <3>3
      DEF VerifyBegin, HookBegin, CheckProcessed, FindOrder, UpsertMiss,
          UpsertWrite, SetPremium, PublishSuccess
    <3>4. CASE Restart \/ UNCHANGED vars \/ \E p \in Payments : Pay(p)
      BY <1>2, <3>4 DEF Restart, vars, Pay
    <3> QED
      BY <3>1, <3>2, <3>3, <3>4 DEF Next, VerifyStep, HookStep, ProcessStep
  <2>2. doc' = Captured(c) /\ doc'[o].pid = PayOf[c]
    BY <1>2, <2>1 DEF Capture, Captured, TypeOK
  <2>3. at'[c] = "upsert" \/ PayOf[c] \in stranded'
    BY <1>2, <2>1 DEF Capture, CallTo, Strand, TypeOK
  <2> QED
    BY <2>2, <2>3 DEF Settling, Granting
<1> QED
  BY <1>1, <1>2

\* No interleaving of calls, events, failures and restarts leaves a captured
\* document behind without a subscription, other than those known to strand
\* it (webhook.go:136-215, payment.go:434-493).
THEOREM CapturesGranted == Spec => []CapturedIsGranted
<1>1. Init => CapturedIsGranted
  BY DEF Init, CapturedIsGranted
<1>2. TypeOK /\ CapturedIsGranted /\ [Next]_vars => CapturedIsGranted'
  BY GrantStep
<1> QED BY <1>1, <1>2, TypeCorrect, PTL DEF Spec

----------------------------------------------------------------------------
(* A subscription is paid.                                                 *)

Capturing == {"check", "find", "capture", "upsert", "insert", "premium",
              "publish"}

\* Only what Razorpay has captured goes through the common steps.
CapturingIsPaid ==
  \A c \in Calls : at[c] \in Capturing => pay[PayOf[c]] = "captured"

\* Past the upsert there is a subscription.
PastUpsertGranted ==
  \A c \in Calls : at[c] \in {"premium", "publish"} =>
    subs[BuyerOf(c)] # {} /\ PayOf[c] \in granted

PaidInv == TypeOK /\ CapturingIsPaid /\ PastUpsertGranted /\ SubscriptionIsPaid

\* What is paid stays paid, and what is granted stays granted.
Lasting ==
  /\ \A p \in Payments : pay[p] = "captured" => pay'[p] = "captured"
  /\ \A u \in Users : subs[u] # {} => subs'[u] # {}
  /\ granted \subseteq granted'

LEMMA LastingStep ==
  ASSUME TypeOK, [Next]_vars
  PROVE  Lasting
<1> USE PlaceOfCall DEF CallOnly, accountVars, Lasting
<1>1. ASSUME NEW o \in Orders, OrderStep(o)
      PROVE  Lasting
  BY <1>1
  DEF OrderStep, OrderCheck, OrderRazorpay, OrderInsert, OrderOnly
<1>2. ASSUME NEW p \in Payments, Pay(p)
      PROVE  Lasting
  BY <1>2 DEF Pay, TypeOK
<1>3. ASSUME NEW c \in Calls, UpsertWrite(c)
      PROVE  Lasting
  <2>1. \A S \in Upserted(c) : S # {}
    BY DEF Upserted
  <2> QED BY <1>3, <2>1 DEF UpsertWrite, TypeOK
<1>4. ASSUME NEW c \in Calls, VerifyStep(c) \/ HookStep(c), ~UpsertWrite(c)
      PROVE  Lasting
  BY <1>4
  DEF VerifyStep, HookStep, ProcessStep, VerifyBegin, HookBegin,
      CheckProcessed, FindOrder, Capture, UpsertMiss, SetPremium,
      PublishSuccess, RecordFailure
<1>5. CASE Restart \/ UNCHANGED vars
  BY <1>5 DEF Restart, vars
<1> QED BY <1>1, <1>2, <1>3, <1>4, <1>5 DEF Next

\* The places of calls: a step moves one, and where it leads.
LEMMA PlacesStep ==
  ASSUME TypeOK, CapturingIsPaid, PastUpsertGranted, [Next]_vars,
         NEW x \in Calls, at'[x] # at[x]
  PROVE  /\ at'[x] \in Capturing => pay[PayOf[x]] = "captured" /\ pay' = pay
         /\ at'[x] \in {"premium", "publish"} =>
              subs'[BuyerOf(x)] # {} /\ PayOf[x] \in granted'
<1> USE PlaceOfCall DEF CallOnly, accountVars
<1> DEFINE Goal ==
      /\ at'[x] \in Capturing => pay[PayOf[x]] = "captured" /\ pay' = pay
      /\ at'[x] \in {"premium", "publish"} =>
           subs'[BuyerOf(x)] # {} /\ PayOf[x] \in granted'
<1>1. ASSUME NEW c \in Calls, VerifyBegin(c) \/ HookBegin(c)
      PROVE  Goal
  BY <1>1 DEF VerifyBegin, HookBegin, CallTo, Capturing, TypeOK
<1>2. ASSUME NEW c \in Calls, CheckProcessed(c) \/ FindOrder(c)
      PROVE  Goal
  BY <1>2
  DEF CheckProcessed, FindOrder, Refuse, CallTo, Capturing, CapturingIsPaid,
      TypeOK
<1>3. ASSUME NEW c \in Calls, Capture(c) \/ UpsertMiss(c)
      PROVE  Goal
  BY <1>3
  DEF Capture, UpsertMiss, Refuse, CallTo, Capturing, CapturingIsPaid, TypeOK
<1>4. ASSUME NEW c \in Calls, UpsertWrite(c)
      PROVE  Goal
  <2>1. x = c
    BY <1>4 DEF UpsertWrite, CallTo, Refuse, TypeOK
  <2>2. pay[PayOf[c]] = "captured" /\ pay' = pay
    BY <1>4 DEF UpsertWrite, CapturingIsPaid, Capturing
  <2>3. CASE at'[c] = "premium"
    <3>1. PICK S \in Upserted(c) : subs' = [subs EXCEPT ![BuyerOf(c)] = S]
      BY <1>4, <2>3 DEF UpsertWrite, CallTo, Refuse, TypeOK
    <3>2. S # {}
      BY DEF Upserted
    <3>3. PayOf[c] \in granted'
      BY <1>4, <2>3 DEF UpsertWrite, CallTo, Refuse, TypeOK
    <3> QED BY <2>1, <2>2, <3>1, <3>2, <3>3 DEF TypeOK
  <2>4. CASE at'[c] # "premium"
    BY <1>4, <2>1, <2>2, <2>4
    DEF UpsertWrite, CallTo, Refuse, TypeOK
  <2> QED BY <2>3, <2>4
<1>5. ASSUME NEW c \in Calls, SetPremium(c) \/ PublishSuccess(c)
      PROVE  Goal
  BY <1>5
  DEF SetPremium, PublishSuccess, Refuse, CallTo, Capturing, CapturingIsPaid,
      PastUpsertGranted, TypeOK
<1>6. ASSUME NEW c \in Calls, RecordFailure(c)
      PROVE  Goal
  BY <1>6 DEF RecordFailure, Refuse, CallTo, Capturing, TypeOK
<1>7. CASE Restart
  BY <1>7 DEF Restart, Capturing, TypeOK
<1>8. ASSUME NEW o \in Orders, OrderStep(o)
      PROVE  Goal
  BY <1>8
  DEF OrderStep, OrderCheck, OrderRazorpay, OrderInsert, OrderOnly
<1>9. CASE UNCHANGED vars \/ \E p \in Payments : Pay(p)
  BY <1>9 DEF vars, Pay
<1> QED
  BY <1>1, <1>2, <1>3, <1>4, <1>5, <1>6, <1>7, <1>8, <1>9
  DEF Next, VerifyStep, HookStep, ProcessStep

LEMMA PlacesKept ==
  ASSUME TypeOK, CapturingIsPaid, PastUpsertGranted, [Next]_vars
  PROVE  CapturingIsPaid' /\ PastUpsertGranted'
<1>1. ASSUME NEW x \in Calls, at'[x] # at[x]
      PROVE  /\ at'[x] \in Capturing => pay'[PayOf[x]] = "captured"
             /\ at'[x] \in {"premium", "publish"} =>
                  subs'[BuyerOf(x)] # {} /\ PayOf[x] \in granted'
  BY <1>1, PlacesStep
<1>2. ASSUME NEW x \in Calls, at'[x] = at[x]
      PROVE  /\ at'[x] \in Capturing => pay'[PayOf[x]] = "captured"
             /\ at'[x] \in {"premium", "publish"} =>
                  subs'[BuyerOf(x)] # {} /\ PayOf[x] \in granted'
  BY <1>2, LastingStep, PlaceOfCall
  DEF Lasting, CapturingIsPaid, PastUpsertGranted
<1> QED BY <1>1, <1>2 DEF CapturingIsPaid, PastUpsertGranted, BuyerOf

LEMMA PaidStep ==
  ASSUME PaidInv, [Next]_vars
  PROVE  SubscriptionIsPaid'
<1> USE PlaceOfCall DEF PaidInv, CallOnly, accountVars
<1>0. Lasting
  BY LastingStep
<1>1. ASSUME subs' = subs, premium' = premium, announced' = announced
      PROVE  SubscriptionIsPaid'
  BY <1>0, <1>1 DEF SubscriptionIsPaid, Lasting, TypeOK
<1>2. ASSUME NEW c \in Calls, UpsertWrite(c)
      PROVE  SubscriptionIsPaid'
  <2>1. pay[PayOf[c]] = "captured" /\ pay' = pay
        /\ premium' = premium /\ announced' = announced
    BY <1>2 DEF UpsertWrite, CapturingIsPaid, Capturing
  <2>2. \A S \in Upserted(c) : \A d \in S :
          d \in subs[BuyerOf(c)] \/ d.pid = PayOf[c]
    BY DEF Upserted, TypeOK
  <2>3. ASSUME NEW u \in Users, NEW d \in subs'[u]
        PROVE  d \in subs[u] \/ (d.pid = PayOf[c] /\ u = BuyerOf(c))
    BY <1>2, <2>2 DEF UpsertWrite, TypeOK
  <2>4. ASSUME NEW u \in Users, NEW d \in subs'[u]
        PROVE  pay'[d.pid] = "captured" /\ Buyer[OrderOf[d.pid]] = u
    BY <2>1, <2>3 DEF SubscriptionIsPaid, BuyerOf
  <2>5. \A u \in premium' : subs'[u] # {}
    BY <1>0, <2>1 DEF SubscriptionIsPaid, Lasting, TypeOK
  <2>6. announced' \subseteq granted'
    BY <1>0, <2>1 DEF SubscriptionIsPaid, Lasting
  <2> QED BY <2>4, <2>5, <2>6 DEF SubscriptionIsPaid
<1>3. ASSUME NEW c \in Calls, SetPremium(c)
      PROVE  SubscriptionIsPaid'
  BY <1>3 DEF SetPremium, SubscriptionIsPaid, PastUpsertGranted
<1>4. ASSUME NEW c \in Calls, PublishSuccess(c)
      PROVE  SubscriptionIsPaid'
  BY <1>4 DEF PublishSuccess, SubscriptionIsPaid, PastUpsertGranted
<1>5. CASE \/ \E o \in Orders : OrderStep(o)
           \/ \E p \in Payments : Pay(p)
           \/ Restart \/ UNCHANGED vars
  BY <1>1, <1>5
  DEF OrderStep, OrderCheck, OrderRazorpay, OrderInsert, OrderOnly, Pay,
      Restart, vars
<1>6. ASSUME NEW c \in Calls,
             \/ VerifyBegin(c) \/ HookBegin(c) \/ CheckProcessed(c)
             \/ FindOrder(c) \/ Capture(c) \/ UpsertMiss(c) \/ RecordFailure(c)
      PROVE  SubscriptionIsPaid'
  BY <1>1, <1>6
  DEF VerifyBegin, HookBegin, CheckProcessed, FindOrder, Capture, UpsertMiss,
      RecordFailure
<1> QED
  BY <1>2, <1>3, <1>4, <1>5, <1>6 DEF Next, VerifyStep, HookStep, ProcessStep

LEMMA PaidInit == Init => PaidInv
BY TypeInit
DEF Init, PaidInv, CapturingIsPaid, PastUpsertGranted, SubscriptionIsPaid,
    Capturing

LEMMA PaidInvStep == PaidInv /\ [Next]_vars => PaidInv'
BY TypeStep, PlacesKept, PaidStep DEF PaidInv

\* Every subscription, premium flag and payment.success goes back to a
\* payment that Razorpay has captured for the user (webhook.go:104-114,
\* 190-240; payment.go:478-506).
THEOREM SubscriptionsPaid == Spec => []SubscriptionIsPaid
<1>1. PaidInv => SubscriptionIsPaid
  BY DEF PaidInv
<1> QED BY <1>1, PaidInit, PaidInvStep, PTL DEF Spec

----------------------------------------------------------------------------
(* Acknowledged events.  Whether the second FindOne finds the order depends *)
(* on the order having been placed before it was paid.                      *)

\* What can be paid is stored, and an event is about a payment with an outcome.
EventInv ==
  /\ \A o \in Orders : order[o] = "placed" => doc[o].status # "none"
  /\ \A p \in Payments : pay[p] # "none" => order[OrderOf[p]] = "placed"
  /\ \A h \in Hooks : at[h] # "idle" => pay[PayOf[h]] # "none"
  /\ \A h \in Hooks : at[h] = "record" => pay[PayOf[h]] = "failed"

LEMMA EventInit == Init => EventInv
BY PaymentAssumption DEF Init, EventInv, Calls

\* Outcomes are final, placed orders remain, and documents are not deleted.
LEMMA OutcomesStay ==
  ASSUME TypeOK, EventInv, [Next]_vars
  PROVE  /\ \A p \in Payments : pay[p] # "none" => pay'[p] = pay[p]
         /\ \A o \in Orders : order[o] = "placed" => order'[o] = "placed"
         /\ \A o \in Orders : order'[o] = "placed" => doc'[o].status # "none"
         /\ \A p \in Payments : pay'[p] # "none" => order'[OrderOf[p]] = "placed"
<1> USE PaymentAssumption, PlaceOfCall DEF CallOnly
<1> DEFINE Goal ==
      /\ \A p \in Payments : pay[p] # "none" => pay'[p] = pay[p]
      /\ \A o \in Orders : order[o] = "placed" => order'[o] = "placed"
      /\ \A o \in Orders : order'[o] = "placed" => doc'[o].status # "none"
      /\ \A p \in Payments : pay'[p] # "none" => order'[OrderOf[p]] = "placed"
<1>1. ASSUME NEW o \in Orders, OrderStep(o)
      PROVE  Goal
  <2>1. /\ pay' = pay /\ order[o] # "placed"
        /\ \A q \in Orders \ {o} : order'[q] = order[q] /\ doc'[q] = doc[q]
        /\ order'[o] = "placed" => doc'[o].status = "pending"
    BY <1>1
    DEF OrderStep, OrderCheck, OrderRazorpay, OrderInsert, OrderTo, OrderOnly, TypeOK
  <2> QED
    BY <2>1 DEF EventInv
<1>2. ASSUME NEW p \in Payments, Pay(p)
      PROVE  Goal
  BY <1>2 DEF Pay, EventInv, TypeOK
<1>3. ASSUME NEW c \in Calls, Capture(c) \/ RecordFailure(c)
      PROVE  Goal
  <2>1. /\ pay' = pay /\ order' = order
        /\ \A o \in Orders : doc'[o] = doc[o] \/ doc'[o].status \in {"captured", "failed"}
    BY <1>3 DEF Capture, Captured, RecordFailure, TypeOK
  <2> QED
    BY <2>1 DEF EventInv
<1>4. ASSUME NEW c \in Calls, VerifyStep(c) \/ HookStep(c),
             ~Capture(c), ~RecordFailure(c)
      PROVE  Goal
  <2>1. UNCHANGED <<pay, order, doc>>
    BY <1>4
    DEF VerifyStep, HookStep, ProcessStep, VerifyBegin, HookBegin,
        CheckProcessed, FindOrder, UpsertMiss, UpsertWrite, SetPremium,
        PublishSuccess
  <2> QED
    BY <2>1 DEF EventInv
<1>5. CASE Restart
  BY <1>5 DEF Restart, EventInv, TypeOK
<1>6. CASE UNCHANGED vars
  BY <1>6 DEF vars, EventInv
<1> QED
  BY <1>1, <1>2, <1>3, <1>4, <1>5, <1>6 DEF Next

\* Where an event comes to a new place.
LEMMA EventMoves ==
  ASSUME TypeOK, CapturedIsGranted, PastUpsertGranted, EventInv, [Next]_vars,
         NEW h \in Hooks, at'[h] # at[h]
  PROVE  /\ at'[h] # "idle" => pay[PayOf[h]] # "none"
         /\ at'[h] = "record" => pay[PayOf[h]] = "failed"
         /\ at'[h] = "ok" /\ pay[PayOf[h]] = "captured" =>
              Settling(PayOf[h]) \/ PayOf[h] \in stranded'
<1> USE PaymentAssumption, PlaceOfCall DEF CallOnly
<1>0. h \in Calls /\ h \notin Verifies
  BY DEF Calls
<1> DEFINE Goal ==
      /\ at'[h] # "idle" => pay[PayOf[h]] # "none"
      /\ at'[h] = "record" => pay[PayOf[h]] = "failed"
      /\ at'[h] = "ok" /\ pay[PayOf[h]] = "captured" =>
           Settling(PayOf[h]) \/ PayOf[h] \in stranded'
<1>1. ASSUME NEW c \in Calls, HookBegin(c) \/ VerifyBegin(c)
      PROVE  Goal
  BY <1>0, <1>1 DEF HookBegin, VerifyBegin, CallTo, TypeOK
<1>2. ASSUME NEW c \in Calls, CheckProcessed(c)
      PROVE  Goal
  <2>1. c = h /\ at[h] = "check" /\ at'[h] # "record"
    BY <1>0, <1>2 DEF CheckProcessed, CallTo, Refuse, TypeOK
  <2>2. at'[h] = "ok" =>
          \E o \in Orders : doc[o] = [status |-> "captured", pid |-> PayOf[h]]
    BY <1>0, <1>2, <2>1 DEF CheckProcessed, CallTo, Refuse, TypeOK
  <2>3. at'[h] = "ok" => Settling(PayOf[h])
    BY <2>2, GrantParts
  <2> QED
    BY <2>1, <2>3 DEF EventInv
<1>3. ASSUME NEW c \in Calls, FindOrder(c)
      PROVE  Goal
  <2>1. c = h /\ at[h] = "find" /\ at'[h] # "record"
    BY <1>0, <1>3 DEF FindOrder, CallTo, TypeOK
  <2>2. pay[PayOf[h]] # "none" /\ doc[OrderOf[PayOf[h]]].status # "none"
    BY <1>0, <2>1 DEF EventInv
  <2>3. at'[h] = "ok" => PayOf[h] \in stranded'
    BY <1>0, <1>3, <2>1, <2>2 DEF FindOrder, CallTo, Strand, TypeOK
  <2> QED
    BY <2>2, <2>1, <2>3
<1>4. ASSUME NEW c \in Calls,
             \/ Capture(c) \/ UpsertMiss(c) \/ UpsertWrite(c) \/ SetPremium(c)
      PROVE  Goal
  <2>1. c = h /\ at[h] # "idle" /\ at'[h] \notin {"record", "ok"}
    BY <1>0, <1>4
    DEF Capture, UpsertMiss, UpsertWrite, SetPremium, CallTo, Refuse, TypeOK
  <2> QED
    BY <2>1 DEF EventInv
<1>5. ASSUME NEW c \in Calls, PublishSuccess(c)
      PROVE  Goal
  <2>1. c = h /\ at[h] = "publish" /\ at'[h] # "record"
    BY <1>0, <1>5 DEF PublishSuccess, CallTo, Refuse, TypeOK
  <2>2. PayOf[h] \in granted
    BY <1>0, <2>1 DEF PastUpsertGranted
  <2> QED
    BY <2>1, <2>2 DEF EventInv, Settling
<1>6. ASSUME NEW c \in Calls, RecordFailure(c)
      PROVE  Goal
  <2>1. c = h /\ at[h] = "record" /\ at'[h] # "record"
    BY <1>0, <1>6 DEF RecordFailure, CallTo, Refuse, TypeOK
  <2> QED
    BY <2>1 DEF EventInv
<1>7. CASE Restart
  BY <1>0, <1>7 DEF Restart, EventInv, TypeOK
<1>8. ASSUME \/ \E o \in Orders : OrderStep(o)
             \/ \E p \in Payments : Pay(p)
             \/ UNCHANGED vars
      PROVE  FALSE
  BY <1>8
  DEF OrderStep, OrderCheck, OrderRazorpay, OrderInsert, OrderOnly, Pay, vars
<1> QED
  BY <1>1, <1>2, <1>3, <1>4, <1>5, <1>6, <1>7, <1>8
  DEF Next, VerifyStep, HookStep, ProcessStep

LEMMA AckParts ==
  AcknowledgedSettles <=>
    \A h \in Hooks :
      at[h] = "ok" /\ pay[PayOf[h]] = "captured" => Settling(PayOf[h])
BY DEF AcknowledgedSettles, Settling, Granting

LEMMA EventStep ==
  ASSUME PaidInv, CapturedIsGranted, EventInv, AcknowledgedSettles, [Next]_vars
  PROVE  EventInv' /\ AcknowledgedSettles'
<1> USE PaymentAssumption
<1>0. TypeOK /\ PastUpsertGranted /\ \A h \in Hooks : PayOf[h] \in Payments
  BY DEF PaidInv, Calls
<1>1. ASSUME NEW h \in Hooks
      PROVE  /\ at'[h] # "idle" => pay'[PayOf[h]] = pay[PayOf[h]]
                                   /\ pay[PayOf[h]] # "none"
             /\ at'[h] = "record" => pay[PayOf[h]] = "failed"
             /\ at'[h] = "ok" /\ pay[PayOf[h]] = "captured" =>
                  Settling(PayOf[h]) \/ PayOf[h] \in stranded'
  <2>1. CASE at'[h] = at[h]
    BY <1>0, <2>1, OutcomesStay, AckParts DEF EventInv
  <2>2. CASE at'[h] # at[h]
    BY <1>0, <2>2, OutcomesStay, EventMoves
  <2> QED
    BY <2>1, <2>2
<1>2. EventInv'
  BY <1>0, <1>1, OutcomesStay DEF EventInv
<1>3. ASSUME NEW h \in Hooks, at'[h] = "ok", pay'[PayOf[h]] = "captured"
      PROVE  Settling(PayOf[h])'
  <2>1. Settling(PayOf[h]) \/ PayOf[h] \in stranded'
    BY <1>1, <1>3
  <2>2. PICK p \in Payments : p = PayOf[h]
    BY <1>0
  <2>3. CASE Settling(PayOf[h])
    <3>1. Settling(p)'
      BY <1>0, <2>2, <2>3, SettlingStep
    <3> QED
      BY <2>2, <3>1
  <2> QED
    BY <2>1, <2>3 DEF Settling
<1> QED
  BY <1>2, <1>3 DEF AcknowledgedSettles, Settling, Granting

\* An event that Razorpay sends no more is of a payment that failed, or that has
\* its subscription, or that another call is about to give it, or that a failure
\* stranded: the safety half of EveryCaptureGrants, whose other half is that
\* Razorpay sends until then (webhook.go:136-162, 226-243).
THEOREM AcknowledgedSettle == Spec => []AcknowledgedSettles
<1>1. Init => PaidInv /\ CapturedIsGranted /\ EventInv /\ AcknowledgedSettles
  BY PaidInit, EventInit
  DEF Init, CapturedIsGranted, AcknowledgedSettles, Calls
<1>2. PaidInv /\ CapturedIsGranted /\ EventInv /\ AcknowledgedSettles /\ [Next]_vars
        => (PaidInv /\ CapturedIsGranted /\ EventInv /\ AcknowledgedSettles)'
  BY PaidInvStep, GrantStep, EventStep DEF PaidInv
<1> QED BY <1>1, <1>2, PTL DEF Spec

----------------------------------------------------------------------------
(* The contract.  Named is the subscriptions without the calls that wrote   *)
(* them: an upsert adds its payment, and at most one other is named no more.*)

Opened     == {o \in Orders : order[o] \in {"checked", "ordered"}}
Placed     == {o \in Orders : order[o] = "placed"}
Paid       == {p \in Payments : pay[p] = "captured"}
Names(S)   == {d.pid : d \in S}
Named      == [u \in Users |-> Names(subs[u])]
OrdersKept == Opened' = Opened /\ Placed' = Placed

\* A step that no order, payment or user sees.
Unseen ==
  OrdersKept /\ Paid' = Paid /\ Named' = Named
  /\ UNCHANGED <<granted, premium, announced>>

LEMMA UnseenStutters ==
  ASSUME Unseen
  PROVE  UNCHANGED Contract!paymentVars
BY DEF Unseen, OrdersKept, Opened, Placed, Paid, Named, Names,
   Contract!paymentVars, Contract!orderVars, Contract!grantVars

LEMMA UnseenParts ==
  /\ order' = order => OrdersKept
  /\ pay' = pay => Paid' = Paid
  /\ subs' = subs => Named' = Named
BY DEF OrdersKept, Opened, Placed, Paid, Named, Names

LEMMA OrderKeeps ==
  ASSUME PaidInv, NEW o \in Orders, OrderStep(o)
  PROVE  Unseen \/ Contract!Next
<1> USE DEF OrderOnly, OrderTo, accountVars
<1>0. /\ order \in [Orders -> {"idle", "checked", "ordered", "placed", "refused"}]
      /\ UNCHANGED <<pay, subs, granted, premium, announced>>
      /\ \A q \in Orders \ {o} : order'[q] = order[q]
  BY DEF PaidInv, TypeOK, OrderStep, OrderCheck, OrderRazorpay, OrderInsert
<1>1. /\ Paid' = Paid /\ Named' = Named
  BY <1>0, UnseenParts
<1>2. CASE order[o] = "idle" /\ order'[o] = "checked"
  <2>1. subs[Buyer[o]] = {}
    BY <1>0, <1>2
    DEF OrderStep, OrderCheck, OrderRazorpay, OrderInsert
  <2>2. Named[Buyer[o]] = {}
    BY <2>1, PaymentAssumption DEF Named, Names
  <2>3. Opened' = Opened \cup {o} /\ Placed' = Placed /\ o \notin Opened \cup Placed
    BY <1>0, <1>2 DEF Opened, Placed
  <2>4. Contract!Open(o)
    BY <1>0, <1>1, <2>2, <2>3
    DEF Contract!Open, Contract!grantVars, Opened, Placed, Paid, Named, Names
  <2> QED
    BY <2>4 DEF Contract!Next
<1>3. CASE order[o] = "ordered" /\ order'[o] = "placed"
  <2>1. o \in Opened /\ Opened' = Opened \ {o} /\ Placed' = Placed \cup {o}
    BY <1>0, <1>3 DEF Opened, Placed
  <2>2. Contract!Place(o)
    BY <1>0, <1>1, <2>1
    DEF Contract!Place, Contract!grantVars, Opened, Placed, Paid, Named, Names
  <2> QED
    BY <2>2 DEF Contract!Next
<1>4. CASE \/ order[o] = "checked" /\ order'[o] = "ordered"
           \/ order[o] # "placed" /\ order'[o] = "refused"
  <2>1. Opened' \subseteq Opened /\ Placed' = Placed
    BY <1>0, <1>4 DEF Opened, Placed
  <2>2. Contract!Abandon
    BY <1>0, <1>1, <2>1
    DEF Contract!Abandon, Contract!grantVars, Opened, Placed, Paid, Named, Names
  <2> QED
    BY <2>2 DEF Contract!Next
<1> QED
  BY <1>0, <1>2, <1>3, <1>4
  DEF OrderStep, OrderCheck, OrderRazorpay, OrderInsert

LEMMA PayKeeps ==
  ASSUME PaidInv, NEW p \in Payments, Pay(p)
  PROVE  Unseen \/ Contract!Next
<1>0. /\ pay \in [Payments -> {"none", "failed", "captured"}]
      /\ UNCHANGED <<order, subs, granted, premium, announced>>
  BY DEF PaidInv, TypeOK, Pay, accountVars
<1>1. OrdersKept /\ Named' = Named
  BY <1>0, UnseenParts
<1>2. CASE pay'[p] = "captured"
  <2>1. Paid' = Paid \cup {p} /\ \A q \in Paid : OrderOf[q] # OrderOf[p]
    BY <1>0, <1>2 DEF Pay, Paid
  <2>2. OrderOf[p] \in Placed
    BY PaymentAssumption DEF Pay, Placed
  <2>3. Contract!Pay(p)
    BY <1>0, <1>1, <2>1, <2>2
    DEF Contract!Pay, Contract!orderVars, Contract!grantVars, OrdersKept,
        Opened, Placed, Paid, Named, Names
  <2> QED
    BY <2>3 DEF Contract!Next
<1>3. CASE pay'[p] # "captured"
  <2>1. Paid' = Paid
    BY <1>0, <1>3 DEF Pay, Paid
  <2> QED
    BY <1>0, <1>1, <2>1 DEF Unseen
<1> QED
  BY <1>2, <1>3

LEMMA NamesAdd ==
  ASSUME NEW A, NEW d
  PROVE  Names(A \cup {d}) = Names(A) \cup {d.pid}
BY DEF Names

\* What an upsert does to the payments that are named.
LEMMA UpsertNames ==
  ASSUME TypeOK, NEW c \in Calls, NEW S \in Upserted(c)
  PROVE  \E gone \in {{}} \cup {{q} : q \in Names(subs[BuyerOf(c)])} :
           Names(S) = (Names(subs[BuyerOf(c)]) \ gone) \cup {PayOf[c]}
<1> DEFINE mine == subs[BuyerOf(c)]
<1>0. mine \subseteq [by : Calls, pid : Payments]
  BY PlaceOfCall DEF TypeOK
<1> HIDE DEF mine
<1>a. ASSUME Names(S) = Names(mine) \cup {PayOf[c]}
      PROVE  \E gone \in {{}} \cup {{q} : q \in Names(mine)} :
               Names(S) = (Names(mine) \ gone) \cup {PayOf[c]}
  <2>1. Names(S) = (Names(mine) \ {}) \cup {PayOf[c]}
    BY <1>a
  <2> QED
    BY <2>1
<1>1. CASE S = mine \cup {[by |-> c, pid |-> PayOf[c]]}
  <2>1. [by |-> c, pid |-> PayOf[c]].pid = PayOf[c]
    OBVIOUS
  <2>2. PICK d : d = [by |-> c, pid |-> PayOf[c]]
    OBVIOUS
  <2>3. S = mine \cup {d} /\ d.pid = PayOf[c]
    BY <1>1, <2>1, <2>2
  <2>4. Names(S) = Names(mine) \cup {PayOf[c]}
    BY <2>3, NamesAdd
  <2> QED
    BY <1>a, <2>4 DEF mine
<1>2. ASSUME NEW d \in mine, S = (mine \ {d}) \cup {[d EXCEPT !.pid = PayOf[c]]}
      PROVE  \E gone \in {{}} \cup {{q} : q \in Names(mine)} :
               Names(S) = (Names(mine) \ gone) \cup {PayOf[c]}
  <2>1. [d EXCEPT !.pid = PayOf[c]].pid = PayOf[c]
    BY <1>0
  <2>2. Names(S) = Names(mine \ {d}) \cup {PayOf[c]}
    BY <1>2, <2>1, NamesAdd
  <2>3. Names(mine) = Names(mine \ {d}) \cup {d.pid}
    BY DEF Names
  <2>4. CASE d.pid \in Names(mine \ {d})
    <3>1. Names(mine) = Names(mine \ {d})
      BY <2>3, <2>4
    <3> QED
      BY <1>a, <2>2, <3>1
  <2>5. CASE d.pid \notin Names(mine \ {d})
    <3>1. Names(S) = (Names(mine) \ {d.pid}) \cup {PayOf[c]}
      BY <2>2, <2>3, <2>5
    <3>2. {d.pid} \in {{q} : q \in Names(mine)}
      BY <2>3
    <3> QED
      BY <3>1, <3>2
  <2> QED
    BY <2>4, <2>5
<1> QED
  BY <1>1, <1>2 DEF Upserted, mine

LEMMA UpsertKeeps ==
  ASSUME PaidInv, NEW c \in Calls, UpsertWrite(c)
  PROVE  Unseen \/ Contract!Next
<1> USE DEF CallOnly
<1>0. /\ TypeOK /\ BuyerOf(c) \in Users /\ PayOf[c] \in Payments
      /\ UNCHANGED <<order, pay, premium, announced>>
  BY PlaceOfCall DEF PaidInv, UpsertWrite
<1>1. OrdersKept /\ Paid' = Paid
  BY <1>0, UnseenParts
<1>2. CASE UNCHANGED <<subs, granted>>
  BY <1>0, <1>1, <1>2, UnseenParts DEF Unseen
<1>3. ASSUME NEW S \in Upserted(c), subs' = [subs EXCEPT ![BuyerOf(c)] = S],
             granted' = granted \cup {PayOf[c]}
      PROVE  Contract!Next
  <2>1. PayOf[c] \in Paid
    BY <1>0 DEF UpsertWrite, PaidInv, CapturingIsPaid, Capturing, Paid
  <2>2. Contract!BuyerOf(PayOf[c]) = BuyerOf(c)
    BY DEF Contract!BuyerOf, BuyerOf
  <2>3. PICK gone \in {{}} \cup {{q} : q \in Names(subs[BuyerOf(c)])} :
          Names(S) = (Names(subs[BuyerOf(c)]) \ gone) \cup {PayOf[c]}
    BY <1>0, UpsertNames
  <2>4. gone \in {{}} \cup {{q} : q \in Named[BuyerOf(c)]}
    BY <1>0, <2>3 DEF Named
  <2>5. Named' = [Named EXCEPT ![BuyerOf(c)] =
                    (Named[BuyerOf(c)] \ gone) \cup {PayOf[c]}]
    BY <1>0, <1>3, <2>3 DEF Named, TypeOK
  <2>6. Contract!Grant(PayOf[c])
    BY <1>0, <1>1, <1>3, <2>1, <2>2, <2>4, <2>5
    DEF Contract!Grant, Contract!orderVars, OrdersKept, Opened, Placed, Paid,
        Named, Names
  <2> QED
    BY <1>0, <2>6 DEF Contract!Next
<1> QED
  BY <1>2, <1>3 DEF UpsertWrite

LEMMA PremiumKeeps ==
  ASSUME PaidInv, NEW c \in Calls, SetPremium(c)
  PROVE  Unseen \/ Contract!Next
<1>0. /\ BuyerOf(c) \in Users /\ UNCHANGED <<order, pay, subs, granted, announced>>
      /\ OrdersKept /\ Paid' = Paid /\ Named' = Named
  BY PlaceOfCall, UnseenParts DEF SetPremium, CallOnly
<1>1. CASE premium' = premium
  BY <1>0, <1>1 DEF Unseen
<1>2. CASE premium' = premium \cup {BuyerOf(c)}
  <2>1. Named[BuyerOf(c)] # {}
    BY <1>0 DEF SetPremium, PaidInv, PastUpsertGranted, Named, Names
  <2>2. Contract!Flag(BuyerOf(c))
    BY <1>0, <1>2, <2>1
    DEF Contract!Flag, Contract!orderVars, Contract!grantVars, OrdersKept,
        Opened, Placed, Paid, Named, Names
  <2> QED
    BY <1>0, <2>2 DEF Contract!Next
<1> QED
  BY <1>1, <1>2 DEF SetPremium

LEMMA PublishKeeps ==
  ASSUME PaidInv, NEW c \in Calls, PublishSuccess(c)
  PROVE  Unseen \/ Contract!Next
<1>0. /\ PayOf[c] \in Payments /\ UNCHANGED <<order, pay, subs, granted, premium>>
      /\ OrdersKept /\ Paid' = Paid /\ Named' = Named
  BY PlaceOfCall, UnseenParts DEF PublishSuccess, CallOnly
<1>1. CASE announced' = announced
  BY <1>0, <1>1 DEF Unseen
<1>2. CASE announced' = announced \cup {PayOf[c]}
  <2>1. PayOf[c] \in granted
    BY DEF PublishSuccess, PaidInv, PastUpsertGranted
  <2>2. Contract!Announce(PayOf[c])
    BY <1>0, <1>2, <2>1
    DEF Contract!Announce, Contract!orderVars, Contract!grantVars, OrdersKept,
        Opened, Placed, Paid, Named, Names
  <2> QED
    BY <1>0, <2>2 DEF Contract!Next
<1> QED
  BY <1>1, <1>2 DEF PublishSuccess

LEMMA RestartKeeps ==
  ASSUME PaidInv, Restart
  PROVE  Contract!Next
<1>0. UNCHANGED <<pay, subs, granted, premium, announced>>
  BY DEF Restart, accountVars
<1>1. Paid' = Paid /\ Named' = Named
  BY <1>0, UnseenParts
<1>2. Opened' \subseteq Opened /\ Placed' = Placed
  BY DEF Restart, Opened, Placed
<1>3. Contract!Abandon
  BY <1>0, <1>1, <1>2
  DEF Contract!Abandon, Contract!grantVars, Opened, Placed, Paid, Named, Names
<1> QED
  BY <1>3 DEF Contract!Next

LEMMA ContractStep ==
  ASSUME PaidInv, [Next]_vars
  PROVE  [Contract!Next]_(Contract!paymentVars)
<1> SUFFICES Unseen \/ Contract!Next
  BY UnseenStutters
<1>1. CASE UNCHANGED <<order, pay, subs, granted, premium, announced>>
  BY <1>1, UnseenParts DEF Unseen
<1>2. ASSUME NEW c \in Calls,
             \/ VerifyBegin(c) \/ HookBegin(c) \/ CheckProcessed(c) \/ FindOrder(c)
             \/ Capture(c) \/ UpsertMiss(c) \/ RecordFailure(c)
      PROVE  UNCHANGED <<order, pay, subs, granted, premium, announced>>
  BY <1>2
  DEF VerifyBegin, HookBegin, CheckProcessed, FindOrder, Capture, UpsertMiss,
      RecordFailure, CallOnly, accountVars
<1>3. CASE UNCHANGED vars
  BY <1>1, <1>3 DEF vars, accountVars
<1> QED
  BY <1>1, <1>2, <1>3, OrderKeeps, PayKeeps, UpsertKeeps, PremiumKeeps,
     PublishKeeps, RestartKeeps
  DEF Next, VerifyStep, HookStep, ProcessStep

LEMMA ContractInit == Init => Contract!Init
BY DEF Init, Contract!Init

\* Only a user who was found without a subscription gets to place an order;
\* an order is paid once; and a subscription, a premium flag and an event
\* follow a payment, in this order, and none is taken away: payment-service
\* keeps its contract (payment.go:143-275, 406-506, webhook.go:104-272).
THEOREM ContractKept == Spec => ContractSpec
<1>1. PaidInv /\ [Next]_vars => [Contract!Next]_(Contract!paymentVars)
  BY ContractStep
<1> QED
  BY <1>1, PaidInit, PaidInvStep, ContractInit, PTL
  DEF Spec, ContractSpec, Contract!Spec
=============================================================================
