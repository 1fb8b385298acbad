SPECIFICATION ServicesSpec
CONSTANTS
  \* checkout
  Checkouts = {tab, retry}
  HookCalls = {1, 2}
  MaxOrders = 2
  MaxCheckoutFaults = 1
  \* search index
  Documents = {d1}
  Places = {pune, agra}
  Upserts = {1, 2}
  MaxPublished = 3
  MaxIndexFaults = 1
  \* session
  left = left
  right = right
  q1 = q1
  q2 = q2
  q3 = q3
  Tabs = {left, right}
  Calls = {q1, q2, q3}
  TabOf <- MCTabOf
  MaxExpiries = 2
  MaxEndings = 2
  \* realtime
  Gateways = {g1, g2}
  Consumers = {k1, k2}
  Sockets = {senderPage, carrierPage}
  Senders = {carrierPage}
  Notes = {n1}
  MaxUpdates = 1
  MaxRealtimeFaults = 1
  \* city input
  Texts = {pu, pun}
  PlaceNames = {puneCity}
  MaxInputs = 4
  \* runtime
  Connections = {c1, c2}
  MaxInFlight = 1
  Resources = {"workers", "mongo"}
  MaxRetries = 2
  MaxRuntimeFaults = 1
  \* account
  carl = carl
  sue = sue
  Users = {carl, sue}
  Deliveries = {p1, p2}
  CarrierOf <- MCCarrierOf
  SenderOf <- MCSenderOf
  AccountCalls = {1, 2}
  MaxRequests = 3
  MaxAccountFaults = 1
INVARIANTS
  ServicesTypeOK
  Payable
  WebhookOnce
  Findable
  SingleFlight
  
  ShownStored
  OncePerSocket
  EnterTakesTyped
  CountExact
  ExitClean
  AnsweredKept
PROPERTIES
  
  IndexFollows
  CallsSettle
  NotificationStored
  
  
CHECK_DEADLOCK FALSE
