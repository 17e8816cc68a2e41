SPECIFICATION Spec
CONSTANTS
  Keys <- MCKeys3
  KeyBit0 = 1
  Garbage <- MCGarbage
  Pace = "paced"
  MaxStrokes = 6
  MaxResets = 1
INVARIANTS FirstKeyHeld SilentWhenReleased
PROPERTY ImplementsMonoSynth
