SPECIFICATION Spec
CONSTANTS
  Command = {command}
  Agent = {agent}
  Recipe = {recipe}
  ArmDelay = 0
  Timeout = 1
  Backstop = 2
  MaxRequests = 2
INVARIANTS
  AskersTypeOK
  NoOrphanedCard
  CancelledCardComesDown
  HeardWhatWasSaid
PROPERTIES
  CancelledTakeIsDenied
  EveryAskReturns
CHECK_DEADLOCK FALSE
