----------------------------- MODULE MCReferral -----------------------------
(* An instance of Referral: x1 and x3 are calls of b with the codes of a     *)
(* and of c, x2 and x4 of c with the code of a and his own; k1 and k2 are    *)
(* claims of a.                                                              *)
EXTENDS Referral, TLC

CONSTANTS a, b, c, x1, x2, x3, x4, k1, k2

RefereeOfAll  == x1 :> b @@ x2 :> c @@ x3 :> b @@ x4 :> c
ReferrerOfAll == x1 :> a @@ x2 :> a @@ x3 :> c @@ x4 :> c
ClaimantOfAll == [k \in Claims |-> a]
=============================================================================
