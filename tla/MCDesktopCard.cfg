SPECIFICATION Spec
CONSTANTS
  Parts = {"keys", "hold", "live", "side"}
  Exclusive = TRUE
  MaxFaults = 2
  NoKey = NoKey
  Error = Error
INVARIANTS
  AllowsWhatWasPressedFor
  InLineWithQueue
  AllowedWasSeen
PROPERTIES
  LetGoNeverAllows
  CardEnds
CHECK_DEADLOCK FALSE
