SPECIFICATION Spec
CONSTANTS
  a = a  b = b  s1 = s1  s2 = s2  s3 = s3  s4 = s4
  Players = {a, b}
  Conns = {s1, s2, s3, s4}
  Owner <- OwnerTwice
  NoPlayer = NoPlayer
  Total = 2
  Forfeiters = {}
  MaxRooms = 2
  MaxSelections = 1
  Perishable = {"closed"}
  MaxDrops = 1
  MaxCrashes = 1
  MaxExpiries = 1
  Faults = FALSE
SYMMETRY TwiceSymmetry
INVARIANTS RoundCompletedOnce FinishedOncePerSelection LoopOwnsHub
PROPERTIES EarlyExitWaitsForAsked ContractSpec
CHECK_DEADLOCK FALSE
