SPECIFICATION MCSpec
CONSTANTS
  T = 18
  PD = 15
  PDH = 7
  Bytes <- MCBytes
  MaxPulse = 9
  MaxNoise = 2
  MaxResets = 1
  Statuses <- MCStatuses
  Data <- MCData
  MinGap = 4
  MaxMessages = 4
  MaxFaults = 1
  MaxPresses = 1
  WIDTH = 3
  Phases = 4
  Low = 1
  Octave <- MCOctave
  Keys <- MCKeys
  Velocities <- MCVelocities
  Delta <- MCDelta
  Wave <- MCWave
  MinHalf = 2
  MaxHalf = 3
  BitsPerChannel = 4
  ByteBits = 2
  HALF = 2
  LADDR = 2
  Table <- MCTable
  MaxRefusals = 2
INVARIANTS TypeOK SampleInItsBit InStepWhenQuiet DecoderTypeOK PulseReportsNote NoSpuriousPulse WordsInOrder
PROPERTIES ByteReported NoFrameLost NoOverrun NoteReported ImplementsTone SetupEnds
