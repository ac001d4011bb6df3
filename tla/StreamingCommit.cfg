SPECIFICATION Spec
CONSTANTS
  Word = {a, b}
  MinDecode = 1
  Hop = 1
  MaxTakes = 1
  MaxAudio = 4
  MaxWords = 2
  MaxSegments = 1
PROPERTIES
  CommittedIsFinal
SYMMETRY Words
CONSTRAINT NoneSlow
CHECK_DEADLOCK FALSE
