SPECIFICATION QueueFairSpec
CONSTANTS
  ArmDelay = 1
  Timeout = 3
  MaxRequests = 4
INVARIANTS
  QueueTypeOK
  QueueInv
PROPERTIES
  ImplementsContract
  EveryRequestSettles
CHECK_DEADLOCK FALSE
