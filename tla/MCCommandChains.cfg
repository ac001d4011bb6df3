SPECIFICATION Spec
CONSTANTS
  Parts = {"two"}
  None = None
  Missing = Missing
INVARIANTS
  OneChainActs
CHECK_DEADLOCK FALSE
