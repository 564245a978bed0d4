SPECIFICATION Spec
CONSTANTS
  a = a  o1 = o1  o2 = o2  p1 = p1  p2 = p2  p3 = p3
  v2 = v2  v3 = v3  h1 = h1  h2 = h2  h2b = h2b
  Users = {a}
  Orders = {o1}
  Buyer <- BuyerOne
  Payments = {p1, p2}
  OrderOf <- OrderOfAll
  Verifies = {}
  Hooks = {h1, h2, h2b}
  PayOf <- PayOfAll
  NoPay = NoPay
  MaxFaults = 0
  MaxRestarts = 0
INVARIANT NoSecondSubscription
CHECK_DEADLOCK FALSE
