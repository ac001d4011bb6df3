SPECIFICATION Spec
CONSTANTS
  Parts = {"recipe", "store", "edit", "tools", "load", "download", "carry", "server"}
  None = None
  NoFocus = NoFocus
  NoNote = NoNote
  Blank = Blank
  Paths = {"home", "notes", "stick"}
  Away = {"stick"}
  Written = {"one", "two"}
  ToolCalls = 2
  ToolFailures = 2
  ToolCrashes = 1
  Procs = {"app", "mcp"}
  Entries = {"first", "second"}
  Solid = TRUE
  Overwrites = TRUE
  CarryFailures = 1
  CarryCrashes = 1
  Askers = {"c1", "c2"}
  Served = {"m1", "m2"}
  Ports = {"q1", "q2"}
  Pipe = 1
  MaxSpawns = 2
  MaxCalls = 2
  MaxOthers = 1
INVARIANTS
  
  UserFilesInv
  
  LlamaInv

  
CHECK_DEADLOCK FALSE
