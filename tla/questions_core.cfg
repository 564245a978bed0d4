SPECIFICATION Spec
CONSTANTS
  a = a  b = b  c = c  r1 = r1  e1 = e1  e2 = e2  m1 = m1
  Players = {a, b, c}
  Rooms = {r1}
  PlayersOf <- Single
  Questions = {e1, e2, m1}
  Difficulty <- Graded
  Count = 2
  Earlier <- Recent
  MaxCounts = 2
  MaxFaults = 2
INVARIANTS SeenOnlyAsFiller NoRepeatUnlessReselected QuestionsSuffice
CHECK_DEADLOCK FALSE
