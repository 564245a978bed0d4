------------------------------ MODULE MCWallet ------------------------------
(* An instance of Wallet: a plays for free, b has a subscription; e1 and e2  *)
(* are entries of a into t1 and t2, e3 is one of b into t1.                  *)
EXTENDS Wallet, TLC

CONSTANTS a, b, g1, g2, e1, e2, e3, p1, t1, t2

PlayerAll    == [g \in Games |-> a]
EntrantAll   == [e \in Entries |-> IF e = e3 THEN b ELSE a]
EntryToAll   == [e \in Entries |-> IF e = e2 THEN t2 ELSE t1]
PusherAll    == [p \in Pushes |-> a]
OnePlace     == [t \in Tournaments |-> 1]
OneCoin      == [t \in Tournaments |-> 1]
SameGames    == Permutations(Games)
=============================================================================
