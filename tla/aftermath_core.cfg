SPECIFICATION FairSpec
CONSTANTS
  a = a  b = b  c = c
  Users = {a, b, c}
  LastRoom = 2
  PlayersOf <- Opponents
  Keep = 1
  Referees = {a, c}
  Referrer <- ReferrerPrev
  MaxFaults = 1
INVARIANTS OnePushPerFlag HistoryBounded DeletedIsOld
PROPERTY QueueDrains
CHECK_DEADLOCK FALSE
