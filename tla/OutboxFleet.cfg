SPECIFICATION FleetSpec
CONSTANTS
  a = a
  b = b
  Relays = {a, b}
  Events = {1, 2}
  BatchSize = 2
  MaxAttempts = 2
  MaxCrashes = 3
  MaxErrors = 1
 
PROPERTIES ImplementsDelivery Settles
\* Every event may be settled, and no relay runs out of work to wait for.
CHECK_DEADLOCK FALSE
