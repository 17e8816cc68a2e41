----------------------------- MODULE MCHardware -----------------------------
(***************************************************************************)
(* The logic of the FPGA, one part at a time: the receiver of bytes, the   *)
(* decoder of messages, the sound module and the set-up of the codec.  The *)
(* parts meet in Piano; here each has its own clock and its own neighbour  *)
(* (the line, the keyboard, the codec), and no two share a cycle: a bit    *)
(* lasts 18 cycles of the receiver, a byte 4 of the decoder, a level of    *)
(* the codec's clock 2 or 3, half a period of I2C 2.                       *)
(*                                                                         *)
(* One of the bytes of the receiver reads otherwise when it is shifted;    *)
(* its line has two low pulses, or one reset.  The decoder gets note off,  *)
(* note on, a control change and a program change, one of the two data     *)
(* bytes is the low half of the status byte of note on, and it meets one   *)
(* fault or one reset.  The sound module has samples of three bits that    *)
(* tell its four phases apart, a key with an increment and one without,    *)
(* and is reset at any time.  The codec refuses two bytes, of which some   *)
(* end in 0 and some in 1.                                                 *)
(***************************************************************************)
EXTENDS SerialReceiver, MidiDecoder, SoundModule, AuSetup

VARIABLE part

MCBytes == {[i \in 1 .. 8 |-> i % 2],
            [i \in 1 .. 8 |-> IF i \in {1, 2, 5} THEN 1 ELSE 0]}
MCStatuses   == {128, 144, 176, 192}
MCData       == {16, 60}
MCOctave     == {60}
MCKeys       == {59, 60}
MCVelocities == {1, 2}
MCDelta(k)   == 1
MCWave(a, v) == <<a % 2, v % 2, (a \div 2) % 2>>
MCTable(a)   == CASE a = 0 -> <<1, 0, 0, 0, 1, 1>>
                  [] a = 1 -> <<1, 0, 0, 1, 1, 0>>
                  [] a = 2 -> <<1, 0, 1, 1, 0, 0>>

MCInit ==
  /\ Init /\ DecoderInit /\ SoundInit /\ SetupInit
  /\ part \in {"receiver", "decoder", "sound", "setup"}
  /\ part # "sound" => /\ setting.key = 60 /\ setting.vel = 1
                       /\ bclk = 0 /\ daclrc = 0 /\ slot = 0

MCNext ==
  /\ \/ /\ part = "receiver" /\ Next
        /\ noise' + 2 * resets' <= 2
        /\ UNCHANGED <<decoderVars, soundVars, setupVars>>
     \/ /\ part = "decoder" /\ DecoderNext
        /\ faults' + presses' <= 1
        /\ UNCHANGED <<vars, soundVars, setupVars>>
     \/ /\ part = "sound" /\ SoundNext
        /\ UNCHANGED <<vars, decoderVars, setupVars>>
     \/ /\ part = "setup" /\ Clock
        /\ UNCHANGED <<vars, decoderVars, soundVars>>
  /\ UNCHANGED part

(* The clocks of the decoder and of the set-up run; the liveness properties *)
(* are theirs.                                                              *)
MCFairness ==
  /\ WF_decoderVars(part = "decoder" /\ (Tick \/ ByteReady))
  /\ WF_setupVars(part = "setup" /\ Clock)

MCSpec ==
  /\ MCInit /\ [][MCNext]_<<part, vars, decoderVars, soundVars, setupVars>>
  /\ MCFairness

(* The set-up ends, if it runs. *)
SetupEnds == part = "setup" => CodecConfigured
=============================================================================
