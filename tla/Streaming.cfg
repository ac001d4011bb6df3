SPECIFICATION Spec
CONSTANTS
  Word = {a, b}
  MinDecode = 1
  Hop = 1
  MaxTakes = 2
  MaxAudio = 2
  MaxWords = 2
  MaxSegments = 2
INVARIANTS
  StreamingTypeOK
  SingleFlight
  AnchorOnCommitted
  UnracedWindow
SYMMETRY Words
CHECK_DEADLOCK FALSE
