SPECIFICATION AccountsSpec
CONSTANTS
  g = g  r1 = r1  s1 = s1  s2 = s2  l1 = l1  l2 = l2  seed = seed  n1 = n1  n2 = n2
  k1 = k1  k2 = k2  k3 = k3  k4 = k4
  NoCode = NoCode  EmptyCode = EmptyCode  NoGoogle = NoGoogle
  Registers = {r1}
  Wanted <- WantedFirst
  SignIns = {s1, s2}
  Google <- GoogleOfAll
  Candidates <- CandidatesOfAll
  Lookups = {l1, l2}
  Seeded = {seed}
  Codes = {k1, k2, k3, k4}
  MaxFailures = 1
SYMMETRY Symmetric
INVARIANTS TwinsMet AnsweredCodeLasts UndisturbedSucceeds
CHECK_DEADLOCK FALSE
