SPECIFICATION Spec
CONSTANTS
  m1 = m1
  r1 = r1
  t1 = t1
  c1 = c1
  c2 = c2
  w1 = w1
  None = None
  Crashed = Crashed
  Calls = {c1, w1}
  Workers = {w1}
  Matches = {m1}
  Requests = {r1}
  Trips = {t1}
  RequestOf <- MCRequestOf
  TripOf <- MCTripOf
  Ops <- RoadWithCancel
  MaxJobs = 1
  MaxDebt = 1
  MaxCrashes = 0
PROPERTIES LockedUntilHandoff
CHECK_DEADLOCK FALSE
