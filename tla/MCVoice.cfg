SPECIFICATION Spec
CONSTANTS
  Parts = {"dictation", "microphone", "endpoint", "wake", "hear", "discord", "ends", "sidecar"}
  None = None
  Modes = {"Inject", "Command"}
  MaxFailures = 1
  MaxTake = 1
  MaxCommands = 2
  Silence = 2
  Hold = 3
  MinSpeech = 2
  NoSpeech = 3
  Margin = 1
  MaxFrames = 8
  MaxTakes = 2
INVARIANTS
  
  HearingInv
  WakeInv
  HelpersInv

  
CHECK_DEADLOCK FALSE
