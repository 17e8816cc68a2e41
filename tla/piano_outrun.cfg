SPECIFICATION Spec
CONSTANTS
  Keys <- MCKeys
  KeyBit0 = 0
  Garbage <- MCGarbage
  Pace = "prompt"
  MaxStrokes = 4
  MaxResets = 0
INVARIANT SilentWhenReleased
