-------------------------------- MODULE Hal --------------------------------
(* What the board support package is configured with: the sizes of its     *)
(* tables (system.h) and what it is used on.                               *)
EXTENDS Integers

CONSTANTS
  ALT_NIRQ,          \* interrupt lines
  MaxSections,       \* bound: critical sections open in one routine
  Alarm,             \* the alarms of program and drivers
  Ticks,             \* values of the tick counter, 2^32
  CallbackStops,     \* what a callback may stop: "any" alarm, or "notNext"
  MaxCallbackCalls,  \* bound: calls one callback makes
  ALT_MAX_FD,        \* file descriptors, 32
  Device,            \* devices that can be opened
  Console,           \* the device of standard input, output and error
  Fallible,          \* devices whose open function may fail
  HeapStart, HeapLimit, \* the memory alt_sbrk hands out
  Increments         \* amounts asked of alt_sbrk

ASSUME HalAssumption ==
  /\ ALT_NIRQ \in Nat \ {0} /\ MaxSections \in Nat
  /\ Ticks \in Nat /\ Ticks > 1
  /\ Alarm \cap {"alt_alarm_list", "null"} = {}
  /\ CallbackStops \in {"any", "notNext"} /\ MaxCallbackCalls \in Nat
  /\ ALT_MAX_FD \in Nat /\ ALT_MAX_FD > 3
  /\ "none" \notin Device /\ Console \in Device /\ Fallible \subseteq Device
  /\ HeapStart \in Nat /\ HeapLimit \in Nat /\ HeapStart <= HeapLimit
  /\ Increments \subseteq Int
=============================================================================
