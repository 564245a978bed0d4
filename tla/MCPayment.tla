------------------------------ MODULE MCPayment ------------------------------
(* Instances of Payment: o1 and o2 are orders of one user; p1 and p2 are     *)
(* attempts to pay o1, p3 one to pay o2; v2 and v3 verify p2 and p3; h1, h2   *)
(* and its duplicate h2b are events about p1 and p2.                         *)
EXTENDS Payment, TLC

CONSTANTS a, o1, o2, p1, p2, p3, v2, v3, h1, h2, h2b

BuyerOne   == [o \in Orders |-> a]
OrderOfAll == [p \in Payments |-> IF p = p3 THEN o2 ELSE o1]
PayOfAll   == [c \in Calls |-> IF c = h1 THEN p1 ELSE IF c = v3 THEN p3 ELSE p2]
=============================================================================
