SPECIFICATION Spec
CONSTANTS
  Parts = {"keychain", "reads", "hotkeys", "bridge", "cap", "listener", "others"}
  Exclusive = TRUE
  MaxFaults = 2
  NoKey = NoKey
  Error = Error
INVARIANTS
  KeychainInv
  HotkeysInv
  
PROPERTIES
  DesktopBehaviour
CHECK_DEADLOCK FALSE
