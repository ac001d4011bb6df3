SPECIFICATION Spec
CONSTANTS
  Parts = {"keychain"}
  Exclusive = FALSE
  MaxFaults = 0
  NoKey = NoKey
  Error = Error
INVARIANTS
  KeyIsKept
CHECK_DEADLOCK FALSE
