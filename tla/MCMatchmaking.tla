---------------------------- MODULE MCMatchmaking ----------------------------
(* Instances of Matchmaking: players a, b, c; j1 to j3 are calls of          *)
(* JoinMatchmaking, s3 is one of SubscribeToMatch.                           *)
EXTENDS Matchmaking, TLC

CONSTANTS a, b, c, j1, j2, j3, s3

JoinOwnerThree == j1 :> a @@ j2 :> b @@ j3 :> c
JoinOwnerAgain == j1 :> a @@ j2 :> b @@ j3 :> b
SubOwnerThird  == s3 :> c
SubOwnerNone   == [s \in {} |-> a]
=============================================================================
