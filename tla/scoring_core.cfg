SPECIFICATION FairSpec
CONSTANTS
  a1 = a1  a2 = a2  b1 = b1  slotA = slotA  slotB = slotB
  Answers = {a1, a2, b1}
  Slots = {slotA, slotB}
  SlotOf <- SlotOfThree
  Right = {a1}
  Stray = {b1}
  None = None
  MaxAttempts = 3
  MaxFaults = 3
  MaxRestarts = 1
  MaxDrops = 1
INVARIANTS ScoredOncePerSlip
PROPERTIES LedgerSpec EveryAnswerSettles
CHECK_DEADLOCK FALSE
