----------------------------- MODULE RxDecMIDI -----------------------------
(***************************************************************************)
(* The Avalon slave of the MIDI receiver, avalon_RxDecMIDI_v2.vhd: three   *)
(* user registers written by three clocked processes.  The decoder behind  *)
(* it raises N_ON or N_OFF for one clock cycle per note event; the         *)
(* processor reads the registers and acknowledges an event by writing      *)
(* RegControl.  This module holds the registers only; the module that      *)
(* drives them (Piano) says which pulses and writes meet at a clock edge.  *)
(*                                                                         *)
(* Data kept: the status bits and the key byte.  The velocity byte goes    *)
(* the same way as the key byte and decides nothing, so it is left out.    *)
(***************************************************************************)
EXTENDS Integers

CONSTANTS
  Keys,      \* key codes the keyboard can send
  KeyBit0    \* value the build gives to the undriven bit 0 of key_code

ASSUME KeysAssumption == Keys \subseteq 1 .. 127
ASSUME KeyBit0Assumption == KeyBit0 \in {0, 1}

VARIABLES
  RegEstado,   \* offset 0, a subset of StatusBits
  RegDatos,    \* offset 1, the key byte
  RegControl   \* offset 2

regs == <<RegEstado, RegDatos, RegControl>>

(* The register word 0b0..0OFI as the set of its bits that are 1.          *)
StatusBits == {"O", "F", "I"}

(* The ACK word REG_CONTROL_ACK of main.c, the only word it writes.        *)
ACK == 1

Event   == [kind : {"on", "off"}, key : Keys]
NoEvent == [kind |-> "none", key |-> 0]

(* The key byte TT.  codificador drives key_code(7 downto 1) with the      *)
(* 7-bit key code and leaves bit 0 undriven.                               *)
KeyCode(k) == 2 * k + KeyBit0

(* The bits P_RegEstado turns on for an event.                             *)
StatusOf(kind) == IF kind = "on" THEN {"O", "I"} ELSE {"F", "I"}

(* The interrupt request line is bit I of the status register.             *)
Irq == "I" \in RegEstado

RegInit ==
  /\ RegEstado = {}
  /\ RegDatos = 0
  /\ RegControl = 0

(* clr_n puts the registers back where they start.                         *)
RegReset ==
  /\ RegEstado' = {}
  /\ RegDatos' = 0
  /\ RegControl' = 0

(***************************************************************************)
(* One clock edge: pulse is the event whose N_ON or N_OFF is 1 (NoEvent if *)
(* neither is), write the word the processor writes to RegControl (0 if    *)
(* none).  A pulse has priority over the acknowledgement.                  *)
(***************************************************************************)
P_RegEstado_AckFirst(pulse, write) ==   \* mutant: the priority the other way round
  RegEstado' = IF write = ACK THEN {}
               ELSE IF pulse # NoEvent THEN RegEstado \cup StatusOf(pulse.kind)
               ELSE RegEstado

P_RegEstado_NoClear(pulse, write) ==    \* mutant: the acknowledgement clears nothing
  RegEstado' = IF pulse # NoEvent THEN RegEstado \cup StatusOf(pulse.kind)
               ELSE RegEstado

P_RegEstado(pulse, write) ==
  RegEstado' = IF pulse # NoEvent THEN RegEstado \cup StatusOf(pulse.kind)
               ELSE IF write = ACK THEN {} ELSE RegEstado

P_RegDatos(pulse) ==
  RegDatos' = IF pulse # NoEvent THEN KeyCode(pulse.key) ELSE RegDatos

P_RegControl_Holds(write) ==            \* mutant: the ACK bit does not clear itself
  RegControl' = IF write = ACK THEN ACK ELSE RegControl

P_RegControl(write) ==
  RegControl' = write

Clock(pulse, write) ==
  /\ P_RegEstado(pulse, write)
  /\ P_RegDatos(pulse)
  /\ P_RegControl(write)

RegTypeOK ==
  /\ RegEstado \subseteq StatusBits
  /\ RegDatos \in 0 .. 255
  /\ RegControl \in {0, ACK}
=============================================================================
