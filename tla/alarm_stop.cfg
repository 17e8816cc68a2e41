SPECIFICATION MCSpec
CONSTANTS
  Parts = {"alarms"}
  ALT_NIRQ = 3
  MaxSections = 2
  Alarm = {a1, a2}
  Ticks = 4
  CallbackStops = "any"
  MaxCallbackCalls = 1
  ALT_MAX_FD = 5
  Device = {"jtag", "/dev/null", "other"}
  Console = "jtag"
  Fallible = {"other"}
  HeapStart = 0
  HeapLimit = 18
  Increments <- MCIncrements
PROPERTY StoppedNotCalled
