SPECIFICATION FairSpec
CONSTANTS
  a = a  b = b  c = c  j1 = j1  j2 = j2  j3 = j3  s3 = s3
  NoJoin = NoJoin  NoSub = NoSub  Update = Update
  Players = {a, b, c}
  Joins = {j1, j2, j3}
  JoinOwner <- JoinOwnerThree
  Subs = {s3}
  SubOwner <- SubOwnerThird
  Leavers = {}
  MinPlayers = 2
  RoomSize = 3
  Cap = 1
  MaxExpiries = 0
  MaxRestarts = 0
  Faults = FALSE
INVARIANTS PoolWatched MatchFoundIsForMember
PROPERTIES PoolDrains ContractSpec
CHECK_DEADLOCK FALSE
