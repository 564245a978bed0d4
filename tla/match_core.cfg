SPECIFICATION Spec
CONSTANTS
  a = a  b = b  c = c  j1 = j1  j2 = j2  j3 = j3  s3 = s3
  NoJoin = NoJoin  NoSub = NoSub  Update = Update
  Players = {a, b}
  Joins = {j1, j2, j3}
  JoinOwner <- JoinOwnerAgain
  Subs = {}
  SubOwner <- SubOwnerNone
  Leavers = {b}
  MinPlayers = 2
  RoomSize = 2
  Cap = 1
  MaxExpiries = 1
  MaxRestarts = 1
  Faults = TRUE
INVARIANTS OneSeatPerJoin LockHeldUnlessExpired
CHECK_DEADLOCK FALSE
