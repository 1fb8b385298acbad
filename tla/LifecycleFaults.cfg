SPECIFICATION FairSpec
CONSTANTS
  m1 = m1
  r1 = r1
  t1 = t1
  c1 = c1
  c2 = c2
  w1 = w1
  None = None
  Crashed = Crashed
  Calls = {c1, w1}
  Workers = {w1}
  Matches = {m1}
  Requests = {r1}
  Trips = {t1}
  RequestOf <- MCRequestOf
  TripOf <- MCTripOf
  Ops <- Everything
  MaxJobs = 1
  MaxDebt = 1
  MaxCrashes = 1
INVARIANTS TypeOK 
PROPERTIES ImplementsCustody JobSettles 
\* Every match may end, and nobody has to call a handler.
CHECK_DEADLOCK FALSE
