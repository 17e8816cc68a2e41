SPECIFICATION Spec
CONSTANTS
  Keys <- MCKeys
  KeyBit0 = 0
  Garbage <- MCGarbage
  Pace = "paced"
  MaxStrokes = 2
  MaxResets = 0
INVARIANT SoundsPressedKey
