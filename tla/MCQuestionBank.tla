--------------------------- MODULE MCQuestionBank ---------------------------
(* An instance of QuestionBank: a match of players a and b of two rounds,   *)
(* an easy and a medium question; another easy one gives that bucket a      *)
(* choice.  Player a was asked one of the two in an earlier match with c.   *)
EXTENDS QuestionBank, TLC

CONSTANTS a, b, c, r1, e1, e2, m1

Single == r1 :> {a, b}
Graded == (e1 :> "easy") @@ (e2 :> "easy") @@ (m1 :> "medium")
Recent == {[players |-> {a, c}, questionIds |-> {e1}]}
=============================================================================
