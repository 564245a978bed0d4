--------------------------- MODULE PaymentContract ---------------------------
(***************************************************************************)
(* What payment-service promises to users and to the consumers of          *)
(* payment.success, however its calls and Razorpay's events interleave,    *)
(* fail or come again: only a user without a subscription gets to place an *)
(* order; an order is paid once; only paid orders give a subscription, a   *)
(* premium flag and an event, in this order; and none is taken away.       *)
(***************************************************************************)
CONSTANTS Users, Orders, Buyer, Payments, OrderOf

VARIABLES
  open,       \* orders whose buyer was found to have no subscription
  placed,     \* orders that can be paid
  paid,       \* payments captured by Razorpay
  granted,    \* payments for which a subscription was written
  named,      \* the payments that each user's subscriptions name
  premium,    \* users with the premium flag
  announced   \* payments for which payment.success was published

orderVars    == <<open, placed>>
grantVars    == <<granted, named>>
paymentVars  == <<orderVars, paid, grantVars, premium, announced>>

Init ==
  /\ open = {} /\ placed = {} /\ paid = {} /\ granted = {}
  /\ named = [u \in Users |-> {}] /\ premium = {} /\ announced = {}

BuyerOf(p) == Buyer[OrderOf[p]]

Open(o) ==
  /\ o \notin open \cup placed /\ named[Buyer[o]] = {}
  /\ open' = open \cup {o}
  /\ UNCHANGED <<placed, paid, grantVars, premium, announced>>

Place(o) ==
  /\ o \in open /\ open' = open \ {o} /\ placed' = placed \cup {o}
  /\ UNCHANGED <<paid, grantVars, premium, announced>>

\* CreateOrder fails, or the service restarts.
Abandon ==
  /\ open' \subseteq open
  /\ UNCHANGED <<placed, paid, grantVars, premium, announced>>

Pay(p) ==
  /\ OrderOf[p] \in placed /\ \A q \in paid : OrderOf[q] # OrderOf[p]
  /\ paid' = paid \cup {p}
  /\ UNCHANGED <<orderVars, grantVars, premium, announced>>

\* A subscription is written: a new one, or one that named another payment.
Grant(p) ==
  /\ p \in paid /\ granted' = granted \cup {p}
  /\ \E gone \in {{}} \cup {{q} : q \in named[BuyerOf(p)]} :
       named' = [named EXCEPT ![BuyerOf(p)] = (@ \ gone) \cup {p}]
  /\ UNCHANGED <<orderVars, paid, premium, announced>>

Flag(u) ==
  /\ named[u] # {} /\ premium' = premium \cup {u}
  /\ UNCHANGED <<orderVars, paid, grantVars, announced>>

Announce(p) ==
  /\ p \in granted /\ announced' = announced \cup {p}
  /\ UNCHANGED <<orderVars, paid, grantVars, premium>>

Next ==
  \/ \E o \in Orders : Open(o) \/ Place(o)
  \/ Abandon
  \/ \E p \in Payments : Pay(p) \/ Grant(p) \/ Announce(p)
  \/ \E u \in Users : Flag(u)

Spec == Init /\ [][Next]_paymentVars
=============================================================================
