SPECIFICATION Spec
CONSTANTS
  Parts = {"placement", "window", "drag", "settles", "regions", "menu", "rest"}
  None = None
INVARIANTS
  OverlayInv

  
CHECK_DEADLOCK FALSE
