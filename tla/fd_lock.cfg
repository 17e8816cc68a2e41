SPECIFICATION MCSpec
CONSTANTS
  Parts = {"files"}
  ALT_NIRQ = 3
  MaxSections = 2
  Alarm = {a1, a2, a3}
  Ticks = 4
  CallbackStops = "notNext"
  MaxCallbackCalls = 1
  ALT_MAX_FD = 5
  Device = {"jtag", "/dev/null", "other"}
  Console = "jtag"
  Fallible = {"other"}
  HeapStart = 0
  HeapLimit = 18
  Increments <- MCIncrements
PROPERTY LockIsExclusive
