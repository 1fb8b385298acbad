SPECIFICATION Spec
CONSTANTS
  carl = carl
  sue = sue
  t1 = t1
  m1 = m1
  m2 = m2
  c1 = c1
  c2 = c2
  None = None
  Crashed = Crashed
  Calls = {c1}
  Jobs = {m1, m2}
  Users = {carl, sue}
  Trips = {t1}
  Matches = {m1, m2}
  MatchOf <- MCMatchOf
  CarrierOf <- MCCarrierOf
  SenderOf <- MCSenderOf
  TripOf <- MCTripOf
  Deposit = 1
  Charge = 2
  Payout = 1
  MaxAttempts = 2
  MaxCrashes = 0
  Ops <- SenderLeaves
PROPERTIES DeactivationBlocked
CHECK_DEADLOCK FALSE
