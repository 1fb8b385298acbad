SPECIFICATION FocusSpec
CONSTANTS
  t1 = t1
  t2 = t2
  r1 = r1
  r2 = r2
  carl = carl
  sue = sue
  Searches = {1, 2}
  Trips = {t1, t2}
  Requests = {r1}
  CarrierOf <- MCCarrierOf
  SenderOf <- MCSenderOf
  Weight <- MCWeight
  Rooms = {1}
  MaxOffers = 2
  Indexed = TRUE
  MaxEdits = 1
  MaxFaults = 1
INVARIANTS
  MatchingTypeOK
  OfferedOnce
PROPERTIES
  RequestFound
  RoundsEnd
\* Everything may be posted, searched for and settled.
CHECK_DEADLOCK FALSE
