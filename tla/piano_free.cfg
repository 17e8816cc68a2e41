SPECIFICATION Spec
CONSTANTS
  Keys <- MCKeys
  KeyBit0 = 0
  Garbage <- MCGarbage
  Pace = "free"
  MaxStrokes = 4
  MaxResets = 1
INVARIANTS CountMatchesVoice DecidesOnOneEvent
PROPERTIES EventKept RequestServed PressIsHeard
