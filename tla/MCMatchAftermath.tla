-------------------------- MODULE MCMatchAftermath --------------------------
(* An instance of MatchAftermath: a plays the first match against b and the *)
(* second against c; b may have referred a, and a may have referred c.      *)
EXTENDS MatchAftermath, TLC

CONSTANTS a, b, c

Opponents    == [r \in Rooms |-> IF r = 1 THEN {a, b} ELSE {a, c}]
ReferrerPrev == [u \in Referees |-> IF u = a THEN b ELSE a]
=============================================================================
