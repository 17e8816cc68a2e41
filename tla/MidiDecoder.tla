---------------------------- MODULE MidiDecoder ----------------------------
(***************************************************************************)
(* modulo2 and its control unit UCmodulo2: the state machine that takes    *)
(* the bytes of the serial receiver (modulo1) and raises n_on or n_off for *)
(* one clock cycle per note message, with the key and the velocity in its  *)
(* registers.  One step is one clock edge.                                 *)
(*                                                                         *)
(* The keyboard sends channel messages, a status byte and one or two data  *)
(* bytes, and may leave out a status byte that repeats the last one        *)
(* (running status).  Bytes are numbers, and the decoder sees of them what *)
(* the code sees: the high nibble, bit 7 and the low seven bits.  A byte   *)
(* may be lost (modulo1 drops one with a bad stop bit), arrive changed     *)
(* (there is no parity) or be one of noise, and KEY0 may reset the decoder *)
(* in the middle of a message.                                             *)
(*                                                                         *)
(* A 2 at the end of ep2, es2, ready2 and code2 says that the signal is    *)
(* the one of modulo2: the serial receiver has signals of the same name.   *)
(***************************************************************************)
EXTENDS DecoderParameters

VARIABLES
  ep2,           \* present state of UCmodulo2
  code_reg,      \* high nibble of the last status byte taken
  key, vel,      \* the registers of modulo2
  ready2, code2, \* outputs of modulo1
  gap,           \* cycles since the last ready pulse, up to MinGap
  msg, pos,      \* the message on the wire, and its next byte
  running,       \* the status byte last sent
  messages, faults, presses,
  since,         \* long messages begun since the last fault, up to InStep
  owedNote       \* the note message received whole and not yet reported

fsm         == <<ep2, code_reg, key, vel>>
uart        == <<ready2, code2, gap>>
sender      == <<msg, pos, running, messages>>
decoderVars == <<fsm, uart, sender, faults, presses, since, owedNote>>

(* Status bytes of messages with two data bytes that bring the decoder back *)
(* in step from any state.  In e2 and e4 the decoder takes any byte as      *)
(* data, a status byte too; a message with one data byte does not help.     *)
InStep == 3

DecoderStates ==
  {"e0", "e1", "e2", "e3", "e4", "e5", "e6", "e7", "e8", "e9", "e10"}
Message == [status : Statuses, data1 : Data, data2 : Data]
NoMessage == [status |-> 0, data1 |-> 0, data2 |-> 0]

(* A note message has a status byte 100xxxxx: 8n is note off, 9n note on.  *)
IsNote(m) == m.status \div 32 = 4

(* Program change and channel pressure (Cn, Dn) have a single data byte.   *)
IsShort(m) == m.status \div 32 = 6
LastByte(m) == IF IsShort(m) THEN "data1" ELSE "data2"

DecoderInit ==
  /\ ep2 = "e0" /\ code_reg = 0 /\ key = 0 /\ vel = 0
  /\ ready2 = 0 /\ code2 = 0 /\ gap = 0
  /\ msg = NoMessage /\ pos = "none" /\ running = 0 /\ messages = 0
  /\ faults = 0 /\ presses = 0
  /\ since = InStep /\ owedNote = NoMessage

-----------------------------------------------------------------------------
(* The decoder.                                                            *)

(* The comparators of modulo2.  (The first form of each is a mutation: two *)
(* bits compared, the wrong bit taken.)                                    *)
tipo1_TwoBits == code_reg \div 4 = 2
tipo1 == code_reg \div 2 = 4
C4_Bit5 == (code_reg \div 2) % 2
C4    == code_reg % 2
code7 == code2 \div 128

(* n_on and n_off; ack is tied to 1 in codificador, so each lasts a cycle. *)
n_on  == ep2 = "e8"
n_off == ep2 = "e7"

(* Next state of UCmodulo2.                                                *)
es2 ==
  CASE ep2 = "e0"  -> IF ready2 = 1 THEN "e1" ELSE "e0"
    [] ep2 = "e1"  -> "e10"
    [] ep2 = "e10" -> IF tipo1 THEN "e2" ELSE "e0"
    [] ep2 = "e2"  -> IF ready2 = 1 THEN "e3" ELSE "e2"
    [] ep2 = "e3"  -> "e4"
    [] ep2 = "e4"  -> IF ready2 = 1 THEN "e5" ELSE "e4"
    [] ep2 = "e5"  -> "e6"
    [] ep2 = "e6"  -> IF C4 = 0 THEN "e7" ELSE "e8"
    [] ep2 \in {"e7", "e8"} -> "e9"
    [] ep2 = "e9"  -> IF ready2 = 0 THEN "e9"
                      ELSE IF code7 = 0 THEN "e3" ELSE "e1"

(* The three registers.  (The first form, a mutation, keeps bit 7 of the   *)
(* key.)                                                                   *)
Load_WholeByte ==
  /\ code_reg' = IF ep2 = "e1" THEN code2 \div 16 ELSE code_reg
  /\ key' = IF ep2 = "e3" THEN code2 ELSE key
  /\ vel' = IF ep2 = "e5" THEN code2 % 128 ELSE vel

Load ==
  /\ code_reg' = IF ep2 = "e1" THEN code2 \div 16 ELSE code_reg
  /\ key' = IF ep2 = "e3" THEN code2 % 128 ELSE key
  /\ vel' = IF ep2 = "e5" THEN code2 % 128 ELSE vel

(* One clock edge.  (Mutations: every byte after a note is taken for a     *)
(* status byte; a note off raises no pulse.)                               *)
Edge_NoRunningStatus ==
  ep2' = (IF ep2 = "e9" /\ ready2 = 1 THEN "e1" ELSE es2) /\ Load

Edge_SkipsOff ==
  ep2' = (IF ep2 = "e6" /\ C4 = 0 THEN "e9" ELSE es2) /\ Load

DecoderEdge == ep2' = es2 /\ Load

-----------------------------------------------------------------------------
(* The keyboard and modulo1.                                               *)

(* The next message goes on the wire, its status byte left out if it may.  *)
StartMessage ==
  /\ pos = "none" /\ messages < MaxMessages
  /\ msg' \in Message
  /\ pos' \in {"status"} \cup (IF msg'.status = running THEN {"data1"} ELSE {})
  /\ running' = msg'.status
  /\ messages' = messages + 1
  /\ UNCHANGED <<fsm, uart, faults, presses, since, owedNote>>

ByteAt(m, p) == CASE p = "status" -> m.status [] p = "data1" -> m.data1
                  [] p = "data2" -> m.data2

After(m, p) == IF p = LastByte(m) THEN "none"
               ELSE IF p = "status" THEN "data1" ELSE "data2"

(* A clock edge that ends in a cycle without a byte.                       *)
Tick ==
  /\ DecoderEdge
  /\ ready2' = 0 /\ gap' = IF gap < MinGap THEN gap + 1 ELSE gap
  /\ owedNote' = IF n_on \/ n_off THEN NoMessage ELSE owedNote
  /\ UNCHANGED <<code2, sender, faults, presses, since>>

(* A clock edge that ends in a cycle in which modulo1 raises ready for b.  *)
Arrives(b) ==
  /\ gap = MinGap
  /\ DecoderEdge
  /\ ready2' = 1 /\ code2' = b /\ gap' = 1
  /\ UNCHANGED <<msg, running, messages, presses>>

(* The byte sent next is over.                                             *)
Sent == pos # "none" /\ pos' = After(msg, pos)

Complete == pos = LastByte(msg) /\ since = InStep /\ IsNote(msg)

(* The byte sent is the byte received.                                     *)
ByteReady ==
  /\ Sent /\ Arrives(ByteAt(msg, pos))
  /\ since' = IF pos = "status" /\ ~IsShort(msg) /\ since < InStep
              THEN since + 1 ELSE since
  /\ owedNote' = IF Complete THEN msg
                 ELSE IF n_on \/ n_off THEN NoMessage ELSE owedNote
  /\ UNCHANGED faults

Fault ==
  /\ faults < MaxFaults
  /\ faults' = faults + 1
  /\ since' = 0

(* Another byte is received in its place, or one that was not sent.        *)
ByteChanged ==
  /\ Fault
  /\ Sent \/ UNCHANGED pos
  /\ \E b \in Statuses \cup Data : Arrives(b)
  /\ owedNote' = IF n_on \/ n_off THEN NoMessage ELSE owedNote

(* The byte is dropped.                                                    *)
ByteLost ==
  /\ Fault
  /\ Sent
  /\ UNCHANGED <<fsm, uart, msg, running, messages, presses, owedNote>>

(* KEY0.  code_reg has no reset, and needs none: the next status byte is   *)
(* taken.  (A byte that the reset cuts in modulo1 is a fault of its own.)  *)
DecoderReset ==
  /\ presses < MaxPresses
  /\ presses' = presses + 1
  /\ ep2' = "e0" /\ key' = 0 /\ vel' = 0 /\ UNCHANGED code_reg
  /\ ready2' = 0 /\ code2' = 0 /\ UNCHANGED gap
  /\ since' = InStep - 1 /\ owedNote' = NoMessage
  /\ UNCHANGED <<sender, faults>>

DecoderNext ==
  StartMessage \/ Tick \/ ByteReady \/ ByteChanged \/ ByteLost \/ DecoderReset

(* The clock runs.                                                         *)
Fairness == WF_decoderVars(Tick \/ ByteReady)

DecoderSpec == DecoderInit /\ [][DecoderNext]_decoderVars /\ Fairness

-----------------------------------------------------------------------------
DecoderTypeOK ==
  /\ ep2 \in DecoderStates /\ code_reg \in 0 .. 15
  /\ key \in 0 .. 127 /\ vel \in 0 .. 127
  /\ ready2 \in {0, 1} /\ code2 \in 0 .. 255 /\ gap \in 0 .. MinGap
  /\ msg \in Message \cup {NoMessage}
  /\ pos \in {"none", "status", "data1", "data2"}
  /\ running \in Statuses \cup {0}
  /\ messages \in 0 .. MaxMessages /\ faults \in 0 .. MaxFaults
  /\ presses \in 0 .. MaxPresses
  /\ since \in 0 .. InStep /\ owedNote \in Message \cup {NoMessage}

(* The pulse raised, if any, reports the message m.                        *)
Reports(m) ==
  /\ n_on <=> (m.status \div 16) % 2 = 1
  /\ key = m.data1 /\ vel = m.data2

(* A note message received whole is reported as it was sent: kind, key and *)
(* velocity, with running status or without (n_on, n_off).                 *)
PulseReportsNote == (n_on \/ n_off) /\ owedNote # NoMessage => Reports(owedNote)

(* Nothing else is reported: no message of another kind, no note twice, no *)
(* mixture.  After a byte lost, changed or added the decoder is back in    *)
(* step at the latest when the third message of two data bytes begins with *)
(* its status byte, after a reset at the first.                            *)
NoSpuriousPulse == (n_on \/ n_off) /\ since = InStep => owedNote # NoMessage

(* A note is reported before the next one is complete (MinGap).            *)
NoOverrun ==
  [][owedNote' # NoMessage => owedNote \in {NoMessage, owedNote'}]_decoderVars

(* Every note received whole is reported.                                  *)
NoteReported == owedNote # NoMessage ~> owedNote = NoMessage
=============================================================================
