------------------------- MODULE DecoderParameters -------------------------
(* What the keyboard sends to the note decoder, MidiDecoder. *)
EXTENDS Integers

CONSTANTS
  Statuses,      \* the status bytes the keyboard sends
  Data,          \* the data bytes it sends
  MinGap,        \* clock cycles from one ready pulse of modulo1 to the next
  MaxMessages,   \* bound: messages sent
  MaxFaults,     \* bound: bytes lost, changed or added
  MaxPresses     \* bound: presses of the reset button

ASSUME DecoderAssumption ==
  /\ Statuses \subseteq 128 .. 239 /\ Data \subseteq 0 .. 127
  /\ MinGap \in Nat /\ MinGap >= 4
  /\ MaxMessages \in Nat /\ MaxFaults \in Nat /\ MaxPresses \in Nat
=============================================================================
