SPECIFICATION MCSpec
CONSTANTS
  a = a
  b = b
  Byte <- TwoBytes
  Keys <- TwoBytes
  LEN = 3
  FifoDepth = 1
  FifoMargin = 0
  INT_MAX = 4
  DefaultTimeout = 2
  Ops <- MCOps
  MaxCount = 3
PROPERTY EioMeansGone
