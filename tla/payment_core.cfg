SPECIFICATION FairSpec
CONSTANTS
  a = a  o1 = o1  o2 = o2  p1 = p1  p2 = p2  p3 = p3
  v2 = v2  v3 = v3  h1 = h1  h2 = h2  h2b = h2b
  Users = {a}
  Orders = {o1, o2}
  Buyer <- BuyerOne
  Payments = {p1, p2, p3}
  OrderOf <- OrderOfAll
  Verifies = {v2, v3}
  Hooks = {h1, h2}
  PayOf <- PayOfAll
  NoPay = NoPay
  MaxFaults = 2
  MaxRestarts = 1
INVARIANTS CapturedIsGranted SubscriptionIsPaid AcknowledgedSettles
PROPERTIES EveryCaptureGrants ContractSpec
CHECK_DEADLOCK FALSE
