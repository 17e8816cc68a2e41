-------------------------------- MODULE Tone --------------------------------
(***************************************************************************)
(* What the sound module promises: in every frame of the codec both        *)
(* channels give the same sample, made of one phase and one setting, and   *)
(* the phase goes on by the increment of the key once in every frame, and  *)
(* only while the voice is on.  After a reset there is a frame of which    *)
(* nothing is promised.                                                    *)
(***************************************************************************)
EXTENDS SoundParameters

VARIABLES
  phase,
  setting,   \* what the sound register asks for
  sample,    \* the sample of this frame, <<>> before it is taken
  out,       \* what the codec received in the frame that just ended, or <<>>
  skip       \* after a reset, until a frame begins: nothing is played

toneVars == <<phase, setting, sample, out, skip>>

Setting == [enable : {0, 1}, key : Keys, vel : Velocities]
Increment(k) == IF k \in Octave THEN Delta(k) ELSE 0
Silence == [i \in 1 .. WIDTH |-> 0]
Value == IF setting.enable = 1 THEN Wave(phase \div Low, setting.vel)
                               ELSE Silence
Advanced == IF setting.enable = 1
            THEN (phase + Increment(setting.key)) % Phases ELSE phase

ToneInit ==
  /\ phase = 0 /\ sample = <<>> /\ out = <<>> /\ skip = TRUE
  /\ setting \in Setting /\ setting.enable = 0

(* The setting may change at any time, also as a sample is taken. *)
Set == setting' \in Setting

Wait ==
  /\ Set /\ out' = <<>>
  /\ UNCHANGED <<phase, sample, skip>>

Sample ==
  /\ sample = <<>> /\ ~skip
  /\ sample' = Value /\ phase' = Advanced
  /\ Set /\ out' = <<>> /\ UNCHANGED skip

Frame ==
  /\ sample # <<>>
  /\ out' = <<sample, sample>> /\ sample' = <<>>
  /\ Set /\ UNCHANGED <<phase, skip>>

Reset ==
  /\ phase' = 0 /\ sample' = <<>> /\ out' = <<>> /\ skip' = TRUE
  /\ Set /\ setting'.enable = 0

Settle ==
  /\ skip /\ skip' \in BOOLEAN
  /\ phase' \in {phase, Advanced}
  /\ Set /\ out' = <<>> /\ UNCHANGED sample

ToneNext == Wait \/ Sample \/ Frame \/ Reset \/ Settle

ToneSpec == ToneInit /\ [][ToneNext]_toneVars
=============================================================================
