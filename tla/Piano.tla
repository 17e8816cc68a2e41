------------------------------- MODULE Piano -------------------------------
(***************************************************************************)
(* The path of a key event through the system: keyboard -> register file   *)
(* (RxDecMIDI) -> interrupt -> irqhandler -> Mi_Contexto -> main loop ->   *)
(* register of the sound module.                                           *)
(*                                                                         *)
(* Three actors: the decoder, which raises an event pulse at any clock     *)
(* edge the keyboard allows; irqhandler, one step per access it makes to a *)
(* register; and main, one step per access it makes to the context it      *)
(* shares with irqhandler (the build is -O0: each is a load or a store).   *)
(* There is one processor: main stands still while a request is pending or *)
(* irqhandler runs.  printf changes nothing here but takes arbitrarily     *)
(* long, which a step of main may do anyway.                               *)
(*                                                                         *)
(* Pace is what is assumed of the keyboard: "free" nothing; "prompt" that  *)
(* an event is acknowledged, and irqhandler left, before the next one is   *)
(* decoded (a MIDI message takes at least 640 us on the wire, irqhandler a *)
(* few us); "paced" that main has also taken the event out of the context. *)
(***************************************************************************)
EXTENDS RxDecMIDI

CONSTANTS
  Garbage,      \* words an uninitialised local variable of main may hold
  Pace,         \* "free", "prompt" or "paced"
  MaxStrokes,   \* bound: key events played
  MaxResets     \* bound: presses of the reset button KEY0

ASSUME PianoAssumption ==
  /\ Garbage \subseteq Nat /\ Garbage # {}
  /\ Pace \in {"free", "prompt", "paced"}
  /\ MaxStrokes \in Nat /\ MaxResets \in Nat

VARIABLES
  held,          \* the keys that are down
  lastEvent,     \* the last event decoded since reset (history)
  alone,         \* did it find no other event under way? (history)
  strokes,       \* events played so far
  resets,        \* resets so far
  isr,           \* next access of irqhandler, "off" when it does not run
  ctx,           \* Mi_Contexto
  main,          \* next access of main
  RDato, notavel, PrimeraTecla, n_teclas,   \* the locals of main
  SoundReg       \* RegDatos of avalon_Sonido: enable bit 16, key byte 7..0

player == <<held, lastEvent, alone, strokes, resets>>
locals == <<RDato, notavel, PrimeraTecla, n_teclas>>
cpu    == <<isr, ctx, main, locals, SoundReg>>
vars   == <<regs, player, cpu>>

(* 0xFFFFFFFF, which main leaves in Control1 and Control2.                 *)
AllOnes == -1

Byte == 0 .. 255
Note == [enable : {0, 1}, key : Byte]

(* notavel = 0x17F43: enable, key byte 0x43.                               *)
BootNote == [enable |-> 1, key |-> 67]

(* The pitch the sound module takes from its register: 7 bits of the byte. *)
Pitch(n) == n.key % 128

(* alt_irq_register has enabled the interrupt.                             *)
irqOn == main # "boot"

(* What main stores into each field of the context to clear it.            *)
Cleared == [Estado |-> {}, Dato |-> 0, Estado2 |-> {},
            Control1 |-> AllOnes, Control2 |-> AllOnes]

NextField_DatoLast ==      \* mutant: the key byte is cleared last
  [Estado |-> "Estado2", Estado2 |-> "Control1", Control1 |-> "Control2",
   Control2 |-> "Dato", Dato |-> "codec"]

(* main clears the fields in this order; main = f says f is next.          *)
NextField == [Estado |-> "Dato", Dato |-> "Estado2", Estado2 |-> "Control1",
              Control1 |-> "Control2", Control2 |-> "codec"]

Init ==
  /\ RegInit
  /\ isr = "off"
  /\ ctx = Cleared
  /\ main = "boot"
  /\ RDato = 0
  /\ notavel = BootNote
  /\ PrimeraTecla \in Garbage
  /\ n_teclas = 0
  /\ SoundReg = [enable |-> 0, key |-> 0]
  /\ held = {} /\ lastEvent = NoEvent /\ alone = TRUE /\ strokes = 0 /\ resets = 0

-----------------------------------------------------------------------------
(* The keyboard.                                                           *)

(* The events the keyboard can produce: a key goes down or comes up.       *)
Playable == {e \in Event : e.kind = "on" <=> e.key \notin held}

(* Has irqhandler, and has main, taken the previous event?                 *)
IsrDone  == RegEstado = {} /\ isr = "off"
MainDone == ctx.Estado = {} /\ main # "Dato"

Admitted ==
  /\ strokes < MaxStrokes
  /\ Pace # "free" => IsrDone
  /\ Pace = "paced" => MainDone

Stroke(e) ==
  /\ held' = IF e.kind = "on" THEN held \cup {e.key} ELSE held \ {e.key}
  /\ lastEvent' = e
  /\ alone' = (IsrDone /\ MainDone)
  /\ strokes' = strokes + 1
  /\ UNCHANGED resets

(* The decoder raises N_ON or N_OFF at an edge with no write to RegControl. *)
DecoderPulse ==
  /\ Admitted
  /\ \E e \in Playable : Stroke(e) /\ Clock(e, 0)
  /\ UNCHANGED cpu

-----------------------------------------------------------------------------
(* irqhandler.                                                             *)

(* A step of irqhandler from one access to the next; a read of a register  *)
(* lets a clock edge pass in which nothing is written.                     *)
IsrStep(from, to) ==
  /\ isr = from /\ isr' = to
  /\ UNCHANGED <<main, locals, SoundReg>>

IsrRead(from, to, field, value) ==
  /\ IsrStep(from, to)
  /\ ctx' = [ctx EXCEPT ![field] = value]
  /\ Clock(NoEvent, 0)
  /\ UNCHANGED player

IsrReadEstado_AckNext ==   \* mutant: acknowledged before the data is read
  /\ irqOn /\ Irq
  /\ IsrRead("off", "ack", "Estado", RegEstado)

(* The first read; the processor enters irqhandler while the line is high. *)
IsrReadEstado ==
  /\ irqOn /\ Irq
  /\ IsrRead("off", "Dato", "Estado", RegEstado)

IsrReadDato == IsrRead("Dato", "Control1", "Dato", RegDatos)

IsrReadControl1 == IsrRead("Control1", "ack", "Control1", RegControl)

(* The write of the ACK, at an edge where an event may arrive too.         *)
IsrWriteAck ==
  /\ IsrStep("ack", "addr")
  /\ \/ Clock(NoEvent, ACK) /\ UNCHANGED player
     \/ Admitted /\ \E e \in Playable : Stroke(e) /\ Clock(e, ACK)
  /\ UNCHANGED ctx

(* The instructions that form the next address take at least one cycle.    *)
IsrFormAddress ==
  /\ IsrStep("addr", "Control2")
  /\ Clock(NoEvent, 0)
  /\ UNCHANGED <<ctx, player>>

IsrReadControl2 == IsrRead("Control2", "Estado2", "Control2", RegControl)

IsrReadEstado2 == IsrRead("Estado2", "off", "Estado2", RegEstado)

Isr ==
  \/ IsrReadEstado \/ IsrReadDato \/ IsrReadControl1 \/ IsrWriteAck
  \/ IsrFormAddress \/ IsrReadControl2 \/ IsrReadEstado2

-----------------------------------------------------------------------------
(* main.                                                                   *)

(* A step of main: the interrupt is taken first when it is requested.      *)
MainStep(from, to) ==
  /\ isr = "off" /\ ~(irqOn /\ Irq)
  /\ main = from /\ main' = to
  /\ Clock(NoEvent, 0)
  /\ UNCHANGED <<player, isr>>

(* The context is set up and the interrupt registered.                     *)
MainBoot ==
  /\ MainStep("boot", "test")
  /\ ctx' = Cleared
  /\ UNCHANGED <<locals, SoundReg>>

(* The test of Mi_Contexto.Estado at the head of the loop.                 *)
MainTest ==
  /\ MainStep("test", IF ctx.Estado # {} THEN "RDato" ELSE "codec")
  /\ UNCHANGED <<ctx, locals, SoundReg>>

MainReadDato ==
  /\ MainStep("RDato", "branch")
  /\ RDato' = ctx.Dato
  /\ UNCHANGED <<ctx, notavel, PrimeraTecla, n_teclas, SoundReg>>

MainNoteOn_NoEnable ==     \* mutant: the enable bit is not set
  /\ MainStep("branch", "Estado")
  /\ ctx.Estado = {"O", "I"}
  /\ notavel' = [notavel EXCEPT !.key = RDato]
  /\ PrimeraTecla' = IF n_teclas = 0 THEN RDato ELSE PrimeraTecla
  /\ n_teclas' = n_teclas + 1
  /\ UNCHANGED <<ctx, RDato, SoundReg>>

MainNoteOn_SecondKey ==    \* mutant: the second press is taken for the first
  /\ MainStep("branch", "Estado")
  /\ ctx.Estado = {"O", "I"}
  /\ notavel' = [enable |-> 1, key |-> RDato]
  /\ PrimeraTecla' = IF n_teclas = 1 THEN RDato ELSE PrimeraTecla
  /\ n_teclas' = n_teclas + 1
  /\ UNCHANGED <<ctx, RDato, SoundReg>>

MainNoteOn_LastKey ==      \* mutant: every press is remembered as the first
  /\ MainStep("branch", "Estado")
  /\ ctx.Estado = {"O", "I"}
  /\ notavel' = [enable |-> 1, key |-> RDato]
  /\ PrimeraTecla' = RDato
  /\ n_teclas' = n_teclas + 1
  /\ UNCHANGED <<ctx, RDato, SoundReg>>

(* Estado == 0x5: the event is a press.                                    *)
MainNoteOn ==
  /\ MainStep("branch", "Estado")
  /\ ctx.Estado = {"O", "I"}
  /\ notavel' = [enable |-> 1, key |-> RDato]
  /\ PrimeraTecla' = IF n_teclas = 0 THEN RDato ELSE PrimeraTecla
  /\ n_teclas' = n_teclas + 1
  /\ UNCHANGED <<ctx, RDato, SoundReg>>

MainNoteOff_KeepsCount ==  \* mutant: n_teclas is not put back to 0
  /\ MainStep("branch", "Estado")
  /\ ctx.Estado # {"O", "I"}
  /\ IF RDato = PrimeraTecla
     THEN notavel' = [notavel EXCEPT !.enable = 0]
     ELSE UNCHANGED notavel
  /\ UNCHANGED <<ctx, RDato, PrimeraTecla, n_teclas, SoundReg>>

(* Anything else is taken for a release.                                   *)
MainNoteOff ==
  /\ MainStep("branch", "Estado")
  /\ ctx.Estado # {"O", "I"}
  /\ IF RDato = PrimeraTecla
     THEN notavel' = [notavel EXCEPT !.enable = 0] /\ n_teclas' = 0
     ELSE UNCHANGED <<notavel, n_teclas>>
  /\ UNCHANGED <<ctx, RDato, PrimeraTecla, SoundReg>>

MainClear_NotEstado(f) ==  \* mutant: the status in the context is not cleared
  /\ MainStep(f, NextField[f])
  /\ ctx' = IF f = "Estado" THEN ctx ELSE [ctx EXCEPT ![f] = Cleared[f]]
  /\ UNCHANGED <<locals, SoundReg>>

(* The five stores that clear the context, one at a time.                  *)
MainClear(f) ==
  /\ MainStep(f, NextField[f])
  /\ ctx' = [ctx EXCEPT ![f] = Cleared[f]]
  /\ UNCHANGED <<locals, SoundReg>>

MainWriteCodec_Skipped ==  \* mutant: the note is not written
  /\ MainStep("codec", "test")
  /\ UNCHANGED <<ctx, locals, SoundReg>>

(* The write to the sound module that ends each turn of the loop.          *)
MainWriteCodec ==
  /\ MainStep("codec", "test")
  /\ SoundReg' = notavel
  /\ UNCHANGED <<ctx, locals>>

Main ==
  \/ MainBoot \/ MainTest \/ MainReadDato \/ MainNoteOn \/ MainNoteOff
  \/ \E f \in DOMAIN Cleared : MainClear(f)
  \/ MainWriteCodec

-----------------------------------------------------------------------------
(* KEY0 resets the fabric and the processor; the keys stay where they are. *)
Reset ==
  /\ resets < MaxResets
  /\ RegReset
  /\ isr' = "off"
  /\ ctx' = Cleared
  /\ main' = "boot"
  /\ RDato' = 0
  /\ notavel' = BootNote
  /\ PrimeraTecla' \in Garbage
  /\ n_teclas' = 0
  /\ SoundReg' = [enable |-> 0, key |-> 0]
  /\ lastEvent' = NoEvent /\ alone' = TRUE
  /\ resets' = resets + 1
  /\ UNCHANGED <<held, strokes>>

Next == DecoderPulse \/ Isr \/ Main \/ Reset

(* The processor runs: irqhandler and main each get on when they can.      *)
Fairness == WF_vars(Isr) /\ WF_vars(Main)

Spec == Init /\ [][Next]_vars /\ Fairness
=============================================================================
