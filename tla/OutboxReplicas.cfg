SPECIFICATION Spec
CONSTANTS
  Relays = {a, b}
  Events = {1, 2}
  BatchSize = 2
  MaxAttempts = 2
  MaxCrashes = 0
  MaxErrors = 0
INVARIANTS PendingKept
CHECK_DEADLOCK FALSE
