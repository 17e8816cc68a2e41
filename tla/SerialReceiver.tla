--------------------------- MODULE SerialReceiver ---------------------------
(***************************************************************************)
(* modulo1 and its control unit UCmodulo1: the receiver of the serial      *)
(* line.  It waits for the line to fall, looks again half a bit later,     *)
(* then takes ten samples, one per bit time, into a shift register: start  *)
(* bit, eight data bits, stop bit.  One step is one clock edge, of the     *)
(* receiver and of the line.                                               *)
(*                                                                         *)
(* The two periods, x"31F" and x"63F" in the source for a bit time of 1600 *)
(* cycles (31250 baud, 50 MHz), are constants, so that a small instance    *)
(* keeps the cycles the state machine itself adds to each bit.             *)
(*                                                                         *)
(* The keyboard sends frames, one after another or with a pause.  A low    *)
(* pulse may disturb the line, and KEY0 may reset the receiver.            *)
(***************************************************************************)
EXTENDS Integers

CONSTANTS
  T,           \* clock cycles of a bit of the keyboard
  PD, PDH,     \* the periods loaded in value_pd: a bit, half a bit
  Bytes,       \* the bytes sent, as functions from 1 .. 8 to {0, 1}
  MaxPulse,    \* cycles that a low pulse may last
  MaxNoise,    \* bound: pulses
  MaxResets    \* bound: presses of the reset button

(* The last sample, and the cycle in which the receiver waits again,       *)
(* counted from the cycle in which it has seen the line fall.              *)
LastSample == PDH + 9 * PD + 29
Reception  == LastSample + 3

(* The last sample falls in the stop bit and ends before the next frame;   *)
(* a pulse is over at the second look, and a keyboard slower than the      *)
(* receiver leaves no room for one.                                        *)
ASSUME SerialReceiverAssumption ==
  /\ T \in Nat /\ PD \in 0 .. 4095 /\ PDH \in 0 .. 4094
  /\ MaxPulse \in Nat /\ MaxNoise \in Nat /\ MaxResets \in Nat
  /\ PDH + 3 < T /\ 9 * T <= LastSample /\ Reception <= 10 * T
  /\ MaxPulse <= PDH + 2
  /\ MaxNoise > 0 => T <= PD + 3
  /\ Bytes \subseteq [1 .. 8 -> {0, 1}]

VARIABLES
  ep,          \* present state of UCmodulo1
  value_pd,    \* cycles left of the period
  value_bt,    \* bits left, modulo 16
  code_aux,    \* the shift register
  bit, phase,  \* the bit on the line, 10 when idle, and its cycle
  byte,        \* the byte of the frame on the line
  pulse,       \* cycles left of a low pulse
  noise, resets,
  quiet,       \* cycles the line has been idle and undisturbed, up to Reception
  clean,       \* 1 if nothing disturbed the reception since the line was quiet
  owed         \* 1 if the byte on the line has not been reported

receiver == <<ep, value_pd, value_bt, code_aux>>
line     == <<bit, phase, byte, pulse>>
vars     == <<receiver, line, noise, resets, quiet, clean, owed>>

States == {"e0", "e1", "e2", "e3", "e4", "e5", "e6", "e7", "e8"}
Idle == 10

Empty == [i \in 0 .. 9 |-> 0]

Init ==
  /\ ep = "e0" /\ value_pd = PDH + 1 /\ value_bt = 8 /\ code_aux = Empty
  /\ bit = Idle /\ phase = 0 /\ byte \in Bytes /\ pulse = 0
  /\ noise = 0 /\ resets = 0 /\ quiet = Reception /\ clean = 1 /\ owed = 0

-----------------------------------------------------------------------------
(* The receiver.                                                           *)

(* The level of the line: a start bit 0, the data, a stop bit 1.           *)
midi_rx ==
  CASE pulse > 0 \/ bit = 0 -> 0
    [] pulse = 0 /\ bit \in 1 .. 8 -> byte[bit]
    [] pulse = 0 /\ bit \in {9, Idle} -> 1

fin_ct_pd == value_pd = 0
fin_ct_bt == value_bt \in {0, 15}
stop_bit  == code_aux[9]
ready     == ep = "e8"
code      == [i \in 1 .. 8 |-> code_aux[i]]

(* An unsigned counter counts down, from 0 to its maximum.                 *)
Down(x, max) == IF x = 0 THEN max ELSE x - 1

(* Next state of UCmodulo1.                                                *)
es ==
  CASE ep = "e0" -> IF midi_rx = 0 THEN "e1" ELSE "e0"
    [] ep = "e1" -> "e2"
    [] ep = "e2" -> IF ~fin_ct_pd THEN "e2" ELSE IF midi_rx = 0 THEN "e3" ELSE "e0"
    [] ep = "e3" -> "e4"
    [] ep = "e4" -> IF fin_ct_pd THEN "e5" ELSE "e4"
    [] ep = "e5" -> IF fin_ct_bt THEN "e7" ELSE "e6"
    [] ep = "e6" -> "e4"
    [] ep = "e7" -> IF stop_bit = 1 THEN "e8" ELSE "e0"
    [] ep = "e8" -> "e0"

(* The counter of the period is loaded before each wait, with half a bit   *)
(* before the second look at the start bit; it wraps below zero.  (The     *)
(* first form, a mutation, loads a whole bit always.)                      *)
Period_Whole ==
  value_pd' = CASE ep \in {"e1", "e3", "e6"} -> PD
                [] ep \in {"e2", "e4"} -> Down(value_pd, 4095)
                [] OTHER -> value_pd

Period ==
  value_pd' = CASE ep = "e1" -> PDH
                [] ep \in {"e3", "e6"} -> PD
                [] ep \in {"e2", "e4"} -> Down(value_pd, 4095)
                [] OTHER -> value_pd

(* The bits left.  (Mutations: one too many; an unbounded counter.)        *)
BitCount_Nine ==
  value_bt' = CASE ep = "e3" -> 9
                [] ep = "e5" -> Down(value_bt, 15)
                [] OTHER -> value_bt

BitCount_Unbounded ==
  value_bt' = CASE ep = "e3" -> 8
                [] ep = "e5" -> value_bt - 1
                [] OTHER -> value_bt

BitCount ==
  value_bt' = CASE ep = "e3" -> 8
                [] ep = "e5" -> Down(value_bt, 15)
                [] OTHER -> value_bt

Shift ==
  code_aux' = IF ep \in {"e3", "e5"}
              THEN [i \in 0 .. 9 |-> IF i = 9 THEN midi_rx ELSE code_aux[i + 1]]
              ELSE code_aux

(* One clock edge.  (Mutations: no second look at the start bit; a bad     *)
(* stop bit is waited for.)                                                *)
Edge_NoSecondLook ==
  /\ ep' = IF ep = "e2" /\ fin_ct_pd THEN "e3" ELSE es
  /\ Period /\ BitCount /\ Shift

Edge_WaitsForStop ==
  /\ ep' = IF ep = "e7" /\ stop_bit = 0 THEN "e7" ELSE es
  /\ Period /\ BitCount /\ Shift

Edge == ep' = es /\ Period /\ BitCount /\ Shift

(* Reception is disturbed by d or not; the line has been quiet for q.      *)
Record(d, q) ==
  /\ quiet' = q
  /\ clean' = IF d THEN 0 ELSE IF q = Reception THEN 1 ELSE clean

-----------------------------------------------------------------------------
(* The line.                                                               *)

Fades == pulse' = IF pulse > 0 THEN pulse - 1 ELSE 0

(* The line stays at the bit it has.                                       *)
Hold ==
  /\ Edge
  /\ bit # Idle /\ phase < T - 1
  /\ phase' = phase + 1 /\ UNCHANGED <<bit, byte>> /\ Fades
  /\ Record(FALSE, 0)
  /\ owed' = IF ep' = "e8" THEN 0 ELSE owed
  /\ UNCHANGED <<noise, resets>>

(* The next bit of the frame, or none.                                     *)
NextBit ==
  /\ Edge
  /\ bit # Idle /\ phase = T - 1
  /\ bit' = bit + 1 /\ phase' = 0 /\ UNCHANGED byte /\ Fades
  /\ Record(FALSE, 0)
  /\ owed' = IF ep' = "e8" THEN 0 ELSE owed
  /\ UNCHANGED <<noise, resets>>

(* The line is idle.                                                       *)
Pause ==
  /\ Edge
  /\ bit = Idle
  /\ UNCHANGED <<bit, phase, byte>> /\ Fades
  /\ Record(FALSE, IF pulse > 0 THEN 0 ELSE IF quiet < Reception THEN quiet + 1 ELSE quiet)
  /\ owed' = IF ep' = "e8" THEN 0 ELSE owed
  /\ UNCHANGED <<noise, resets>>

(* A frame begins, after a pause or right after the stop bit.              *)
StartFrame ==
  /\ Edge
  /\ bit = Idle \/ (bit = 9 /\ phase = T - 1)
  /\ bit' = 0 /\ phase' = 0 /\ byte' \in Bytes /\ Fades
  /\ Record(FALSE, 0)
  /\ owed' = clean'
  /\ UNCHANGED <<noise, resets>>

(* A low pulse begins; it disturbs nothing if the line and the receiver    *)
(* are idle.                                                               *)
(* (It begins between two edges: the line is what the next edge sees.)     *)
Noise ==
  /\ noise < MaxNoise
  /\ noise' = noise + 1
  /\ pulse = 0 /\ pulse' \in 1 .. MaxPulse
  /\ Record(bit # Idle \/ ep # "e0", 0)
  /\ owed' = IF clean' = 1 THEN owed ELSE 0
  /\ UNCHANGED <<receiver, bit, phase, byte, resets>>

(* KEY0.                                                                   *)
Reset ==
  /\ resets < MaxResets
  /\ resets' = resets + 1
  /\ ep' = "e0" /\ value_pd' = PDH + 1 /\ value_bt' = 8 /\ code_aux' = Empty
  /\ Record(bit # Idle, quiet)
  /\ owed' = 0
  /\ UNCHANGED <<line, noise>>

Next == Hold \/ NextBit \/ Pause \/ StartFrame \/ Noise \/ Reset

Spec == Init /\ [][Next]_vars

-----------------------------------------------------------------------------
TypeOK ==
  /\ ep \in States /\ value_pd \in 0 .. 4095 /\ value_bt \in 0 .. 15
  /\ code_aux \in [0 .. 9 -> {0, 1}]
  /\ bit \in 0 .. Idle /\ phase \in 0 .. T - 1 /\ byte \in Bytes
  /\ pulse \in 0 .. MaxPulse /\ noise \in 0 .. MaxNoise /\ resets \in 0 .. MaxResets
  /\ quiet \in 0 .. Reception /\ clean \in {0, 1} /\ owed \in {0, 1}

(* Each sample is taken while its own bit is on the line, in spite of the  *)
(* cycles that the state machine adds to each period; a pulse that finds   *)
(* line and receiver idle starts no reception (e2, e3, e5).                *)
SampleInItsBit ==
  clean = 1 => /\ ep = "e3" => bit = 0
               /\ ep = "e5" => bit = 9 - value_bt

(* ready is raised for a byte that was sent, once, and with that byte.     *)
ByteReported ==
  [][ep = "e7" /\ ep' = "e8" /\ clean = 1 => owed = 1 /\ code' = byte]_vars

(* A byte is reported before the next frame begins, also when the frames   *)
(* follow one another without a pause.                                     *)
NoFrameLost == [][bit # 0 /\ bit' = 0 => owed = 0]_vars

(* Whatever a reset or a pulse has left it doing, the receiver waits for a *)
(* start bit again when the line has been quiet for one reception.         *)
InStepWhenQuiet == quiet = Reception => ep = "e0"
=============================================================================
