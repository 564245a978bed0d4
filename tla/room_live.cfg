SPECIFICATION FairSpec
CONSTANTS
  a = a  b = b  s1 = s1  s2 = s2  s3 = s3  s4 = s4
  Players = {a, b}
  Conns = {s1, s2}
  Owner <- OwnerTwo
  NoPlayer = NoPlayer
  Total = 1
  Forfeiters = {a}
  MaxRooms = 2
  MaxSelections = 1
  Perishable = {"questions", "submitted"}
  MaxDrops = 2
  MaxCrashes = 1
  MaxExpiries = 1
  Faults = TRUE
PROPERTIES LoopTerminates MatchEndReachesPlayers ContractSpec
CHECK_DEADLOCK FALSE
