-------------------------- MODULE PianoProperties --------------------------
(***************************************************************************)
(* What is asked of Piano, under each assumption about the keyboard, and   *)
(* how its state is read as a state of MonoSynth.                          *)
(***************************************************************************)
EXTENDS Piano

Fields == DOMAIN Cleared
IsrPcs == {"off", "Dato", "Control1", "ack", "addr", "Control2", "Estado2"}
MainPcs == {"boot", "test", "RDato", "branch", "codec"} \cup Fields

(* Types of all variables.  The context's control words and RDato show     *)
(* what the accesses can return: never the ACK bit.                        *)
TypeOK ==
  /\ RegTypeOK
  /\ held \subseteq Keys
  /\ lastEvent \in Event \cup {NoEvent} /\ alone \in BOOLEAN
  /\ strokes \in 0 .. MaxStrokes /\ resets \in 0 .. MaxResets
  /\ isr \in IsrPcs /\ main \in MainPcs
  /\ ctx \in [Estado : SUBSET StatusBits, Dato : Byte,
              Estado2 : SUBSET StatusBits,
              Control1 : {0, AllOnes}, Control2 : {0, AllOnes}]
  /\ RDato \in Byte /\ notavel \in Note /\ SoundReg \in Note
  /\ PrimeraTecla \in Nat /\ n_teclas \in Nat

(* Nothing is under way: the last event has been read, handled and written *)
(* to the sound module.                                                    *)
Settled == IsrDone /\ ctx.Estado = {} /\ main = "test" /\ SoundReg = notavel

-----------------------------------------------------------------------------
(* For any keyboard.                                                       *)

(* An event raises the request line even when the processor acknowledges   *)
(* the previous one at the same clock edge (the priority in P_RegEstado).  *)
EventKept == [][strokes' # strokes => Irq']_vars

(* The voice is on exactly while main counts a group of presses, but for   *)
(* the note it starts with: no event, torn or lost, lets notavel and       *)
(* n_teclas part (main.c:144-158).                                         *)
CountMatchesVoice ==
  /\ n_teclas > 0 => notavel.enable = 1
  /\ notavel.enable = 1 /\ n_teclas = 0 => notavel = BootNote

(* A request is always served and acknowledged (irqhandler).               *)
RequestServed == Irq ~> IsrDone

(* main decides on one event: the status it tests and the key byte it read *)
(* one access earlier belong together, and to the last event, if that came *)
(* when no other was under way, neither before irqhandler nor before main; *)
(* what main clears one by one does not spoil the event that comes next    *)
(* (main.c:141-142, :165-166).                                             *)
DecidesOnOneEvent ==
  main = "branch" /\ alone =>
    /\ ctx.Estado = StatusOf(lastEvent.kind)
    /\ RDato = KeyCode(lastEvent.key)

(* A press that comes when no other event is under way is heard: its key   *)
(* byte, enabled, is written to the sound module, unless another event or  *)
(* a reset comes first (main.c:144-151, :165, :174).                       *)
PressIsHeard ==
  \A k \in Keys :
    LET e == [kind |-> "on", key |-> k] IN
    lastEvent = e /\ alone ~> \/ SoundReg = [enable |-> 1, key |-> KeyCode(k)]
                              \/ lastEvent # e

-----------------------------------------------------------------------------
(* For a prompt keyboard.                                                  *)

(* irqhandler copies events whole and in time: the register file holds the *)
(* last event until it is acknowledged, by when the context holds it whole *)
(* (main.c:92-98: nothing is acknowledged unread), and from then on it     *)
(* holds that event, or what main has left of it, and never an older one.  *)
ContextIsLastEvent ==
  /\ RegEstado # {} => /\ RegEstado = StatusOf(lastEvent.kind)
                       /\ RegDatos = KeyCode(lastEvent.key)
  /\ RegEstado = {} /\ isr # "off" => /\ ctx.Estado = StatusOf(lastEvent.kind)
                                      /\ ctx.Dato = KeyCode(lastEvent.key)
  /\ IsrDone => /\ ctx.Estado \in {{}, StatusOf(lastEvent.kind)}
                /\ ctx.Dato \in {0, KeyCode(lastEvent.key)}

(* Every event is brought to an end: main comes to rest with the sound     *)
(* module written (the loop of main.c:134-175).                            *)
EventsSettle == Irq ~> Settled

-----------------------------------------------------------------------------
(* For a paced keyboard.                                                   *)

(* The key whose release would silence the voice is a key that is down, or *)
(* its release is on the way: the voice can always be stopped              *)
(* (PrimeraTecla, main.c:146-158).                                         *)
FirstKeyHeld ==
  Settled /\ n_teclas > 0 => \E k \in held : PrimeraTecla = KeyCode(k)

(* When all keys are up and nothing is under way no key note sounds: only  *)
(* the note that main starts with may (main.c:154-158).                    *)
SilentWhenReleased ==
  Settled /\ held = {} => SoundReg.enable = 0 \/ SoundReg = BootNote

(* The event in a status word and a key byte, as MonoSynth sees it.        *)
Heard(estado, dato) ==
  [kind |-> IF estado = {"O", "I"} THEN "on" ELSE "off", code |-> dato]

(* The event not yet handled: in the registers until it is acknowledged,   *)
(* in the context until main has decided on it.                            *)
Pending ==
  IF RegEstado # {} THEN Heard(RegEstado, RegDatos)
  ELSE IF ctx.Estado # {} /\ main # "Estado" THEN Heard(ctx.Estado, ctx.Dato)
  ELSE [kind |-> "none", code |-> 0]

Synth == INSTANCE MonoSynth WITH
  Codes <- {KeyCode(k) : k \in Keys}, pending <- Pending, note <- notavel,
  first <- PrimeraTecla, count <- n_teclas, out <- SoundReg

(* Registers, interrupt, context and loop together behave as the           *)
(* monophonic synthesiser, to a player who does not outrun main.           *)
ImplementsMonoSynth == Synth!Spec

-----------------------------------------------------------------------------
(* What the comments say and the code does not.                            *)

(* main.c:144: on a press, the key registered is the key of that press.    *)
RegistersPressedKey ==
  [][n_teclas' > n_teclas => notavel'.key = KeyCode(lastEvent.key)]_vars

(* avalon_Sonido_v1.vhd:18 says that 7 bits of TT are used, as the pitch   *)
(* of the key; this is the pitch of the key last pressed.                  *)
SoundsPressedKey ==
  Settled /\ lastEvent.kind = "on" => Pitch(SoundReg) = lastEvent.key
=============================================================================
