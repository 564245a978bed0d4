----------------------------- MODULE MCGameRoom -----------------------------
(* Instances of GameRoom for TLC: two players, two or four connections (the *)
(* second one of a player is a reconnect).                                  *)
EXTENDS GameRoom, TLC

CONSTANTS a, b, s1, s2, s3, s4

OwnerTwo   == s1 :> a @@ s2 :> b
OwnerTwice == s1 :> a @@ s2 :> b @@ s3 :> a @@ s4 :> b

\* The renamings under which OwnerTwice is the same function: the players are
\* alike, and so are the connections of each.
Swap(x, y) == x :> y @@ y :> x
TwiceSymmetry ==
  {Swap(s1, s3), Swap(s2, s4), Swap(s1, s3) @@ Swap(s2, s4)}
    \cup {Swap(a, b) @@ m :
            m \in {Swap(s1, s2) @@ Swap(s3, s4), Swap(s1, s4) @@ Swap(s3, s2),
                   s1 :> s2 @@ s2 :> s3 @@ s3 :> s4 @@ s4 :> s1,
                   s1 :> s4 @@ s4 :> s3 @@ s3 :> s2 @@ s2 :> s1}}
=============================================================================
