SPECIFICATION Spec
CONSTANTS
  a = a  b = b  c = c  x1 = x1  x2 = x2  x3 = x3  x4 = x4  k1 = k1  k2 = k2
  Users = {a, b, c}
  NoUser = NoUser
  Applies = {x1, x2, x3, x4}
  Referee <- RefereeOfAll
  Referrer <- ReferrerOfAll
  Claims = {k1, k2}
  Claimant <- ClaimantOfAll
  Cap = 1
  MaxFaults = 2
  MaxRestarts = 1
INVARIANTS
  ReferralIsWhole RefereeRewardedOnce CapUnlessCrowded BooksBalanceUnlessTorn
CHECK_DEADLOCK FALSE
