SPECIFICATION Spec
CONSTANTS
  a = a  b = b  g1 = g1  g2 = g2    e1 = e1  e2 = e2  e3 = e3
  p1 = p1  t1 = t1  t2 = t2
  Users = {a, b}
  Subscribers = {b}
  Free = 1
  LastDay = 1
  Games = {g1, g2}
  Player <- PlayerAll
  Tournaments = {t1, t2}
  Places <- OnePlace
  Fee <- OneCoin
  PremiumOnly = {}
  Entries = {e1, e2, e3}
  Entrant <- EntrantAll
  EntryTo <- EntryToAll
  Pushes = {p1}
  Pusher <- PusherAll
  Coins0 = 1
  Bonus0 = 1
  MaxGifts = 1
  MaxFaults = 1
INVARIANTS QuotaHeld TournamentHeld FeeBuysPlace CoinsHeld
SYMMETRY SameGames
CHECK_DEADLOCK FALSE
