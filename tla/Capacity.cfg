\* One trip with room for one of the two requests.
SPECIFICATION FocusSpec
CONSTANTS
  Searches = {1, 2}
  Trips = {t1}
  Requests = {r1, r2}
  CarrierOf <- MCCarrierOf
  SenderOf <- MCSenderOf
  Weight <- MCWeight
  t1 = t1
  t2 = t2
  r1 = r1
  r2 = r2
  carl = carl
  sue = sue
  Rooms = {1}
  MaxOffers = 2
  Indexed = FALSE
  MaxEdits = 0
  MaxFaults = 0
INVARIANTS
  NotOversubscribed
CHECK_DEADLOCK FALSE
