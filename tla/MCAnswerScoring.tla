--------------------------- MODULE MCAnswerScoring ---------------------------
(* Instances of AnswerScoring: a1 and a2 are two calls for one slot, b1 a    *)
(* call for another.                                                         *)
EXTENDS AnswerScoring, TLC

CONSTANTS a1, a2, b1, slotA, slotB

SlotOfThree == a1 :> slotA @@ a2 :> slotA @@ b1 :> slotB
SlotOfTwo   == a1 :> slotA @@ b1 :> slotB
=============================================================================
