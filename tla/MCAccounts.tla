----------------------------- MODULE MCAccounts -----------------------------
(* An instance of Accounts: s1 and s2 are sign-ins with the Google account   *)
(* g, whose name n1 r1 asks for too.                                         *)
EXTENDS Accounts, TLC

CONSTANTS g, r1, s1, s2, l1, l2, seed, n1, n2, k1, k2, k3, k4

WantedFirst == r1 :> n1
GoogleOfAll == s1 :> g @@ s2 :> g
CandidatesOfAll == g :> <<n1, n2>>
Symmetric == Permutations(Codes) \cup Permutations(SignIns) \cup Permutations(Lookups)
=============================================================================
