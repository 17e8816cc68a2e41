---------------------------- MODULE SoundModule -----------------------------
(***************************************************************************)
(* The sound module (Sound_module.vhd): the sine generator (sin_DDS.vhd)   *)
(* and the serialiser (au_out.vhd, UCau_out.vhd), with the register that   *)
(* sets them (avalon_Sonido_v1.vhd) and the codec that takes the bits.     *)
(*                                                                         *)
(* One step is one cycle of clk.  The codec makes its clocks out of its    *)
(* own divider: a level of bclk lasts from MinHalf to MaxHalf cycles, and  *)
(* daclrc changes as bclk falls.  The codec takes a bit as bclk rises, the *)
(* first WIDTH ones after each change of daclrc.                           *)
(***************************************************************************)
EXTENDS SoundParameters, Sequences

VARIABLES
  setting,                   \* the fields of RegDatos
  Q,                         \* sin_DDS
  ep_out, sample_aux, value_cont, \* au_out: ep, and its registers
  bclk, daclrc,              \* the codec's clocks
  level, slot,               \* cycles of bclk's level, periods of daclrc's
  left, right,               \* the bits taken in this frame
  loaded,                    \* history: the sample of this frame, or <<>>
  dirty                      \* history: no frame has begun since the reset

soundVars == <<setting, Q, ep_out, sample_aux, value_cont, bclk, daclrc, level,
               slot, left, right, loaded, dirty>>

SoundStates == {"e0", "e1", "e2", "e3", "e4", "e5", "e6", "e7"}
Setting     == [enable : {0, 1}, key : Keys, vel : Velocities]
Silence     == [i \in 1 .. WIDTH |-> 0]

(* sin_DDS: the increment, 0 outside the octave, and the sample. *)
delta(key) == IF key \in Octave THEN Delta(key) ELSE 0
sample == IF setting.enable = 1 THEN Wave(Q \div Low, setting.vel)
                                ELSE Silence

(* After reset, at any moment of a frame. *)
SoundInit ==
  /\ setting \in Setting /\ setting.enable = 0
  /\ Q = 0 /\ ep_out = "e0" /\ sample_aux = Silence /\ value_cont = WIDTH - 1
  /\ bclk \in {0, 1} /\ daclrc \in {0, 1} /\ level = 1
  /\ slot \in 0 .. BitsPerChannel - 1
  /\ left = <<>> /\ right = <<>> /\ loaded = <<>> /\ dirty = TRUE

(* UCau_out *)
fin_cont == value_cont = 0
nextsample == ep_out = "e1"     \* ready of au_out, also its ld_reg

es_out == CASE ep_out = "e0" -> IF daclrc = 1 THEN "e1" ELSE "e0"
            [] ep_out = "e1" -> "e2"
            [] ep_out = "e2" -> "e3"
            [] ep_out = "e3" -> IF bclk = 1 THEN "e4" ELSE "e3"
            [] ep_out = "e4" -> IF bclk = 0 THEN "e5" ELSE "e4"
            [] ep_out = "e5" -> IF ~fin_cont THEN "e3"
                                ELSE IF daclrc = 0 THEN "e6" ELSE "e7"
            [] ep_out = "e6" -> IF daclrc = 1 THEN "e1" ELSE "e6"
            [] ep_out = "e7" -> IF daclrc = 0 THEN "e2" ELSE "e7"

(* Forms marked as mutations are faults a run must notice. *)
Rotated_Out(word) ==                               \* mutation
  [i \in 1 .. WIDTH |-> IF i = WIDTH THEN 0 ELSE word[i + 1]]
Rotated(word) == [i \in 1 .. WIDTH |-> word[(i % WIDTH) + 1]]

(* The registers at an edge of clk. *)
SoundEdge ==
  /\ ep_out' = es_out
  /\ sample_aux' = IF nextsample THEN sample
                   ELSE IF ep_out = "e5" THEN Rotated(sample_aux)
                   ELSE sample_aux
  /\ value_cont' = IF es_out = "e2" THEN WIDTH - 1     \* asynchronous, in e2
                   ELSE IF ep_out = "e5" THEN (value_cont - 1) % WIDTH
                   ELSE value_cont
  /\ Q' = IF nextsample /\ setting.enable = 1
          THEN (Q + delta(setting.key)) % Phases ELSE Q
  /\ setting' \in Setting

(* The codec's clocks in the next cycle. *)
Stay == /\ level < MaxHalf
        /\ level' = level + 1
        /\ UNCHANGED <<bclk, daclrc, slot>>
Rise == /\ bclk = 0 /\ level >= MinHalf
        /\ bclk' = 1 /\ level' = 1
        /\ UNCHANGED <<daclrc, slot>>
Fall == /\ bclk = 1 /\ level >= MinHalf
        /\ bclk' = 0 /\ level' = 1
        /\ slot' = (slot + 1) % BitsPerChannel
        /\ daclrc' = IF slot' = 0 THEN 1 - daclrc ELSE daclrc

FrameBegins == daclrc = 0 /\ daclrc' = 1

(* A frame is in left and right for one cycle more. *)
FrameEnded == daclrc = 1 /\ slot = 0 /\ bclk = 0 /\ level = 1

(* What the codec takes as bclk rises: bit 15 of the register.             *)
Taken(channel, word) ==
  IF FrameEnded \/ dirty THEN <<>>
  ELSE IF bclk = 0 /\ bclk' = 1 /\ daclrc = channel /\ Len(word) < WIDTH
       THEN Append(word, sample_aux'[1]) ELSE word

SoundTick ==
  /\ SoundEdge
  /\ Stay \/ Rise \/ Fall
  /\ left' = Taken(1, left) /\ right' = Taken(0, right)
  /\ loaded' = IF FrameBegins THEN <<>>
               ELSE IF nextsample /\ ~dirty THEN sample ELSE loaded
  /\ dirty' = (dirty /\ ~FrameBegins)

(* The reset, which the codec and its clocks do not get. *)
SoundReset ==
  /\ setting' \in Setting /\ setting'.enable = 0
  /\ Q' = 0
  /\ ep_out' = "e0" /\ sample_aux' = Silence /\ value_cont' = WIDTH - 1
  /\ Stay \/ Rise \/ Fall
  /\ left' = <<>> /\ right' = <<>> /\ loaded' = <<>> /\ dirty' = TRUE

SoundNext == SoundTick \/ SoundReset

SoundSpec == SoundInit /\ [][SoundNext]_soundVars

-----------------------------------------------------------------------------
(* The module implements Tone: the codec receives every sample, whole, in  *)
(* both channels of one frame, most significant bit first, however its     *)
(* clocks drift, whenever the register is written, and again after a reset *)
(* in the middle of a frame.                                               *)
Promise == INSTANCE Tone WITH
  phase <- Q,
  sample <- loaded,
  out <- IF FrameEnded /\ left # <<>> THEN <<left, right>> ELSE <<>>,
  skip <- dirty

ImplementsTone == Promise!ToneSpec
=============================================================================
