---------------------------- MODULE PianoProofs ----------------------------
(***************************************************************************)
(* Proofs about Piano, for any set of keys, any garbage, any bounds.       *)
(***************************************************************************)
EXTENDS PianoProperties, TLAPS

(* The ACK bit is up only in the cycle after it is written.                *)
AckInv == RegControl = ACK => isr = "addr"

TypeInv == TypeOK /\ AckInv

(* Every key byte is a byte, and a press or release sets legal bits.       *)
LEMMA KeyCodeByte ==
  ASSUME NEW k \in Keys
  PROVE  KeyCode(k) \in Byte /\ KeyCode(k) # 0
BY KeysAssumption, KeyBit0Assumption, SMT DEF KeyCode, Byte

(* What a clock edge does to the types of the registers.                   *)
LEMMA ClockType ==
  ASSUME RegTypeOK, NEW p \in Event \cup {NoEvent}
  PROVE  /\ Clock(p, 0) => RegTypeOK' /\ RegControl' # ACK
         /\ Clock(p, ACK) => RegTypeOK'
<1>1. p # NoEvent => p \in Event
  OBVIOUS
<1>2. p # NoEvent => KeyCode(p.key) \in 0 .. 255
  BY <1>1, KeyCodeByte, SMT DEF Event, Byte
<1>3. StatusOf(p.kind) \subseteq StatusBits
  BY SMT DEF StatusOf, StatusBits
<1>4. ASSUME NEW w \in {0, ACK}, Clock(p, w) PROVE RegTypeOK' /\ RegControl' = w
  <2>1. RegEstado' \subseteq StatusBits
    BY <1>3, <1>4, SMT DEF Clock, P_RegEstado, RegTypeOK
  <2>2. RegDatos' \in 0 .. 255
    BY <1>2, <1>4, SMT DEF Clock, P_RegDatos, RegTypeOK
  <2> QED
    BY <2>1, <2>2, <1>4 DEF RegTypeOK, Clock, P_RegControl
<1> QED
  BY <1>4, SMT DEF ACK

(* What an event does to the types of the player's variables.              *)
LEMMA StrokeType ==
  ASSUME held \subseteq Keys, strokes \in 0 .. MaxStrokes, Admitted,
         NEW e \in Playable, Stroke(e)
  PROVE  /\ strokes' \in 0 .. MaxStrokes /\ held' \subseteq Keys
         /\ lastEvent' \in Event /\ alone' \in BOOLEAN
<1>1. /\ strokes' \in 0 .. MaxStrokes /\ held' \subseteq Keys
      /\ lastEvent' \in Event
  BY PianoAssumption, SMT DEF Playable, Stroke, Event, Admitted
<1>2. alone' \in BOOLEAN
  BY Zenon DEF Stroke
<1> QED
  BY <1>1, <1>2

LEMMA TypeInit == Init => TypeInv
BY PianoAssumption, SMT
DEF Init, RegInit, TypeInv, TypeOK, AckInv, RegTypeOK, StatusBits, ACK, NoEvent,
    Cleared, Byte, Note, BootNote, IsrPcs, MainPcs, Fields, AllOnes

LEMMA TypeStep == TypeInv /\ [Next]_vars => TypeInv'
<1> SUFFICES ASSUME TypeInv, [Next]_vars PROVE TypeInv'
  OBVIOUS
<1>1. CASE DecoderPulse
  <2>1. PICK e \in Playable : Stroke(e) /\ Clock(e, 0)
    BY <1>1 DEF DecoderPulse
  <2>2. /\ strokes' \in 0 .. MaxStrokes /\ held' \subseteq Keys
        /\ lastEvent' \in Event /\ alone' \in BOOLEAN
    BY <1>1, <2>1, StrokeType DEF DecoderPulse, TypeInv, TypeOK
  <2> QED
    BY <1>1, <2>1, <2>2, ClockType, SMT
    DEF DecoderPulse, TypeInv, TypeOK, AckInv, Playable, Stroke, cpu, locals
<1>2. CASE IsrReadEstado
  BY <1>2, ClockType, SMT DEF IsrReadEstado, IsrRead, IsrStep, TypeInv, TypeOK, AckInv, RegTypeOK, player, locals, IsrPcs
<1>3. CASE IsrReadDato
  BY <1>3, ClockType, SMT DEF IsrReadDato, IsrRead, IsrStep, TypeInv, TypeOK, AckInv, RegTypeOK, player, locals, IsrPcs, Byte
<1>4. CASE IsrReadControl1
  BY <1>4, ClockType, SMT DEF IsrReadControl1, IsrRead, IsrStep, TypeInv, TypeOK, AckInv, RegTypeOK, player, locals, IsrPcs
<1>5. CASE IsrWriteAck
  <2> USE <1>5 DEF IsrWriteAck, IsrStep, TypeInv, TypeOK, AckInv, locals, IsrPcs
  <2>1. CASE Clock(NoEvent, ACK) /\ UNCHANGED player
    BY <2>1, ClockType, SMT DEF player
  <2>2. ASSUME Admitted, NEW e \in Playable, Stroke(e), Clock(e, ACK) PROVE TypeInv'
    <3>1. /\ strokes' \in 0 .. MaxStrokes /\ held' \subseteq Keys
          /\ lastEvent' \in Event /\ alone' \in BOOLEAN
      BY <2>2, StrokeType DEF TypeInv, TypeOK
    <3> QED
      BY <2>2, <3>1, ClockType, SMT DEF Playable, Stroke
  <2> QED
    BY <2>1, <2>2
<1>6. CASE IsrFormAddress
  BY <1>6, ClockType, SMT DEF IsrFormAddress, IsrStep, TypeInv, TypeOK, AckInv, player, locals, IsrPcs
<1>7. CASE IsrReadControl2
  BY <1>7, ClockType, SMT DEF IsrReadControl2, IsrRead, IsrStep, TypeInv, TypeOK, AckInv, RegTypeOK, player, locals, IsrPcs
<1>8. CASE IsrReadEstado2
  BY <1>8, ClockType, SMT DEF IsrReadEstado2, IsrRead, IsrStep, TypeInv, TypeOK, AckInv, RegTypeOK, player, locals, IsrPcs
<1>9. CASE Main
  <2> USE DEF MainStep, TypeInv, TypeOK, AckInv, player, locals, MainPcs, Fields
  <2>1. CASE MainBoot
    BY <1>9, <2>1, ClockType, SMT DEF MainBoot, Cleared, AllOnes, StatusBits, Byte
  <2>2. CASE MainTest
    BY <1>9, <2>2, ClockType, SMT DEF MainTest
  <2>3. CASE MainReadDato
    BY <1>9, <2>3, ClockType, SMT DEF MainReadDato
  <2>4. CASE MainNoteOn
    BY <1>9, <2>4, ClockType, SMT DEF MainNoteOn, Note, Byte, Cleared
  <2>5. CASE MainNoteOff
    BY <1>9, <2>5, ClockType, SMT DEF MainNoteOff, Note, Cleared
  <2>6. ASSUME NEW f \in DOMAIN Cleared, MainClear(f) PROVE TypeInv'
    BY <2>6, ClockType, SMT DEF MainClear, Cleared, NextField, AllOnes, StatusBits, Byte
  <2>7. CASE MainWriteCodec
    BY <1>9, <2>7, ClockType, SMT DEF MainWriteCodec
  <2> QED
    BY <1>9, <2>1, <2>2, <2>3, <2>4, <2>5, <2>6, <2>7 DEF Main
<1>10. CASE Reset
  BY <1>10, PianoAssumption, SMT
  DEF Reset, RegReset, TypeInv, TypeOK, AckInv, RegTypeOK, StatusBits, ACK, NoEvent,
      Cleared, Byte, Note, BootNote, IsrPcs, MainPcs, Fields, AllOnes
<1>11. CASE UNCHANGED vars
  BY <1>11, SMT DEF vars, regs, player, cpu, locals, TypeInv, TypeOK, AckInv, RegTypeOK
<1> QED
  BY <1>1, <1>2, <1>3, <1>4, <1>5, <1>6, <1>7, <1>8, <1>9, <1>10, <1>11 DEF Next, Isr

(* Every variable of the whole path keeps its type, and the control words  *)
(* that irqhandler reads back never show the ACK bit (main.c:65).          *)
THEOREM TypeCorrect == Spec => []TypeOK
<1>1. TypeInv => TypeOK
  BY DEF TypeInv
<1> QED
  BY TypeInit, TypeStep, <1>1, PTL DEF Spec

-----------------------------------------------------------------------------
(* What a clock edge does to the values of the registers.                  *)

LEMMA ClockIdle ==
  Clock(NoEvent, 0) => RegEstado' = RegEstado /\ RegDatos' = RegDatos
BY SMT DEF Clock, P_RegEstado, P_RegDatos, ACK

LEMMA ClockAck ==
  Clock(NoEvent, ACK) => RegEstado' = {} /\ RegDatos' = RegDatos
BY SMT DEF Clock, P_RegEstado, P_RegDatos

LEMMA ClockPulse ==
  ASSUME NEW e \in Event, NEW w, Clock(e, w)
  PROVE  /\ RegEstado' = RegEstado \cup StatusOf(e.kind)
         /\ RegDatos' = KeyCode(e.key)
<1>1. e # NoEvent
  BY SMT DEF Event, NoEvent
<1> QED
  BY <1>1 DEF Clock, P_RegEstado, P_RegDatos

LEMMA StatusBitI ==
  ASSUME NEW k
  PROVE  /\ "I" \in StatusOf(k)
         /\ StatusOf(k) # {}
         /\ StatusOf(k) = {"O", "I"} <=> k = "on"
BY SMT DEF StatusOf

LEMMA KeyCodeInjective ==
  ASSUME NEW k \in Keys, NEW l \in Keys, KeyCode(k) = KeyCode(l)
  PROVE  k = l
BY KeysAssumption, KeyBit0Assumption, SMT DEF KeyCode

-----------------------------------------------------------------------------
(* n_teclas and the enable bit of notavel move together.                   *)

LEMMA CountStep == TypeInv /\ CountMatchesVoice /\ [Next]_vars => CountMatchesVoice'
<1> SUFFICES ASSUME TypeInv, CountMatchesVoice, [Next]_vars PROVE CountMatchesVoice'
  OBVIOUS
<1> USE DEF CountMatchesVoice
<1>1. CASE UNCHANGED locals
  BY <1>1 DEF locals
<1>2. CASE MainNoteOn
  BY <1>2, SMT DEF MainNoteOn, TypeInv, TypeOK
<1>3. CASE MainNoteOff
  BY <1>3, SMT DEF MainNoteOff, TypeInv, TypeOK, Note
<1>4. CASE MainReadDato
  BY <1>4 DEF MainReadDato
<1>5. CASE Reset
  BY <1>5, SMT DEF Reset, BootNote
<1>6. DecoderPulse \/ Isr \/ UNCHANGED vars => UNCHANGED locals
  BY DEF DecoderPulse, Isr, IsrReadEstado, IsrReadDato, IsrReadControl1, IsrWriteAck,
     IsrFormAddress, IsrReadControl2, IsrReadEstado2, IsrRead, IsrStep, cpu, vars
<1>7. Main => UNCHANGED locals \/ MainNoteOn \/ MainNoteOff \/ MainReadDato
  BY DEF Main, MainBoot, MainTest, MainClear, MainWriteCodec
<1> QED
  BY <1>1, <1>2, <1>3, <1>4, <1>5, <1>6, <1>7 DEF Next

(* For any keyboard: the voice is on exactly while a group is counted.     *)
THEOREM CountAndVoice == Spec => []CountMatchesVoice
<1>1. Init => CountMatchesVoice
  BY SMT DEF Init, CountMatchesVoice
<1> QED
  BY <1>1, TypeInit, TypeStep, CountStep, PTL DEF Spec

(* For any keyboard: an event raises the request line, also at the clock   *)
(* edge at which irqhandler acknowledges the one before it.                *)
THEOREM EventRaisesIrq == Spec => EventKept
<1>1. ASSUME NEW e \in Playable, NEW w, Clock(e, w) PROVE Irq'
  <2>1. e \in Event
    BY DEF Playable
  <2> QED
    BY <1>1, <2>1, ClockPulse, StatusBitI DEF Irq
<1>2. DecoderPulse => Irq'
  BY <1>1 DEF DecoderPulse
<1>3. IsrWriteAck => UNCHANGED strokes \/ Irq'
  BY <1>1 DEF IsrWriteAck, player
<1>4. Isr => IsrWriteAck \/ UNCHANGED strokes
  BY DEF Isr, IsrReadEstado, IsrReadDato, IsrReadControl1, IsrFormAddress,
     IsrReadControl2, IsrReadEstado2, IsrRead, player
<1>5. Main \/ Reset => UNCHANGED strokes
  BY DEF Main, MainBoot, MainTest, MainReadDato, MainNoteOn, MainNoteOff,
     MainClear, MainWriteCodec, MainStep, Reset, player
<1>6. [Next]_vars => [strokes' # strokes => Irq']_vars
  BY <1>2, <1>3, <1>4, <1>5 DEF Next
<1> QED
  BY <1>6, PTL DEF Spec, EventKept

-----------------------------------------------------------------------------
(* A prompt keyboard: where the last event is while irqhandler copies it.  *)

Copying == isr \in {"Dato", "Control1", "ack"}      \* not yet acknowledged
Copied  == isr \in {"addr", "Control2", "Estado2"}  \* acknowledged

LastStatus == StatusOf(lastEvent.kind)
LastCode   == KeyCode(lastEvent.key)

DeliveryInv ==
  /\ RegEstado # {} => RegEstado = LastStatus /\ RegDatos = LastCode
  /\ Copying => RegEstado # {} /\ ctx.Estado = LastStatus
  /\ isr \in {"Control1", "ack"} => ctx.Dato = LastCode
  /\ Copied => RegEstado = {} /\ ctx.Estado = LastStatus /\ ctx.Dato = LastCode
  /\ IsrDone => ctx.Estado \in {{}, LastStatus} /\ ctx.Dato \in {0, LastCode}
  /\ main = "boot" => isr = "off" /\ ctx.Estado = {}

LEMMA DeliveryInit == Init => DeliveryInv
BY SMT DEF Init, RegInit, DeliveryInv, Copying, Copied, IsrDone, Cleared

(* An event that finds irqhandler at rest.                                 *)
LEMMA DeliveryEvent ==
  ASSUME DecoderPulse, IsrDone, main = "boot" => ctx.Estado = {}
  PROVE  DeliveryInv'
<1> USE DEF DeliveryInv, Copying, Copied, LastStatus, LastCode, IsrDone
<1>1. PICK e \in Playable : Stroke(e) /\ Clock(e, 0)
  BY DEF DecoderPulse
<1>2. RegEstado = {} /\ isr = "off" /\ e \in Event /\ lastEvent' = e
  BY <1>1 DEF Playable, Stroke
<1>3. RegEstado' = StatusOf(e.kind) /\ RegDatos' = KeyCode(e.key)
  BY <1>1, <1>2, ClockPulse
<1> QED
  BY <1>2, <1>3, StatusBitI, SMT DEF DecoderPulse, cpu

(* A step in which no event is decoded.                                    *)
Quiet == ~DecoderPulse /\ (IsrWriteAck => UNCHANGED player)

LEMMA DeliveryQuiet ==
  TypeInv /\ DeliveryInv /\ [Next]_vars /\ Quiet => DeliveryInv'
<1> SUFFICES ASSUME TypeInv, DeliveryInv, [Next]_vars, Quiet PROVE DeliveryInv'
  OBVIOUS
<1> USE DEF DeliveryInv, Copying, Copied, LastStatus, LastCode, IsrDone
<1>1. ~DecoderPulse
  BY DEF Quiet
<1>2. CASE Isr
  <2> USE DEF IsrStep, IsrRead, player
  <2>1. CASE IsrReadEstado
    BY <2>1, ClockIdle, SMT DEF IsrReadEstado, Irq, irqOn, TypeInv, TypeOK
  <2>2. CASE IsrReadDato
    BY <2>2, ClockIdle, SMT DEF IsrReadDato, TypeInv, TypeOK
  <2>3. CASE IsrReadControl1
    BY <2>3, ClockIdle, SMT DEF IsrReadControl1, TypeInv, TypeOK
  <2>4. CASE IsrWriteAck
    <3>1. UNCHANGED player
      BY <2>4 DEF Quiet
    <3>2. Clock(NoEvent, ACK)
      <4>1. ASSUME NEW e, Stroke(e) PROVE FALSE
        BY <3>1, <4>1, SMT DEF Stroke, TypeInv, TypeOK
      <4> QED
        BY <2>4, <4>1 DEF IsrWriteAck
    <3> QED
      BY <2>4, <3>1, <3>2, ClockAck, SMT DEF IsrWriteAck
  <2>5. CASE IsrFormAddress
    BY <2>5, ClockIdle, SMT DEF IsrFormAddress
  <2>6. CASE IsrReadControl2
    BY <2>6, ClockIdle, SMT DEF IsrReadControl2, TypeInv, TypeOK
  <2>7. CASE IsrReadEstado2
    BY <2>7, ClockIdle, SMT DEF IsrReadEstado2, TypeInv, TypeOK
  <2> QED
    BY <1>2, <2>1, <2>2, <2>3, <2>4, <2>5, <2>6, <2>7 DEF Isr
<1>3. CASE Main
  <2>1. isr = "off" /\ isr' = "off" /\ RegEstado' = RegEstado /\ RegDatos' = RegDatos
        /\ lastEvent' = lastEvent /\ main' # "boot"
    BY <1>3, ClockIdle, SMT
    DEF Main, MainBoot, MainTest, MainReadDato, MainNoteOn, MainNoteOff, MainClear,
        MainWriteCodec, MainStep, player, Cleared, NextField
  <2>2. ctx' = ctx \/ ctx' = Cleared \/ \E f \in DOMAIN Cleared : ctx' = [ctx EXCEPT ![f] = Cleared[f]]
    BY <1>3 DEF Main, MainBoot, MainTest, MainReadDato, MainNoteOn, MainNoteOff,
                MainClear, MainWriteCodec
  <2>3. ctx'.Estado \in {ctx.Estado, {}} /\ ctx'.Dato \in {ctx.Dato, 0}
    BY <2>2, SMT DEF TypeInv, TypeOK, Cleared
  <2> QED
    BY <2>1, <2>3, SMT
<1>4. CASE Reset
  BY <1>4, SMT DEF Reset, RegReset, Cleared
<1>5. CASE UNCHANGED vars
  BY <1>5, SMT DEF vars, regs, cpu, player
<1> QED
  BY <1>1, <1>2, <1>3, <1>4, <1>5 DEF Next

LEMMA DeliveryStep ==
  ASSUME Pace # "free"
  PROVE  TypeInv /\ DeliveryInv /\ [Next]_vars => DeliveryInv'
<1> SUFFICES ASSUME TypeInv, DeliveryInv, [Next]_vars PROVE DeliveryInv'
  OBVIOUS
<1>1. CASE DecoderPulse
  <2>1. IsrDone /\ (main = "boot" => ctx.Estado = {})
    BY <1>1 DEF DecoderPulse, Admitted, DeliveryInv
  <2> QED
    BY <1>1, <2>1, DeliveryEvent
<1>2. CASE ~DecoderPulse
  <2>1. IsrWriteAck => UNCHANGED player
    BY SMT DEF IsrWriteAck, IsrStep, Admitted, IsrDone
  <2> QED
    BY <1>2, <2>1, DeliveryQuiet DEF Quiet
<1> QED
  BY <1>1, <1>2

(* With a prompt keyboard irqhandler delivers every event whole and in     *)
(* time: the context holds it before it is acknowledged, and when no       *)
(* request is left the last event, or what main has left of it.            *)
THEOREM Delivery ==
  ASSUME Pace # "free"
  PROVE  Spec => []ContextIsLastEvent
<1>1. TypeInv /\ DeliveryInv => ContextIsLastEvent
  <2> SUFFICES ASSUME TypeInv, DeliveryInv PROVE ContextIsLastEvent
    OBVIOUS
  <2>1. isr = "off" \/ Copying \/ Copied
    BY DEF TypeInv, TypeOK, IsrPcs, Copying, Copied
  <2>2. RegEstado = {} /\ isr # "off"
          => ctx.Estado = LastStatus /\ ctx.Dato = LastCode
    BY <2>1 DEF DeliveryInv
  <2> QED
    BY <2>2 DEF DeliveryInv, ContextIsLastEvent, LastStatus, LastCode
<1>2. TypeInv /\ DeliveryInv /\ [Next]_vars => DeliveryInv'
  BY DeliveryStep
<1> QED
  BY TypeInit, TypeStep, DeliveryInit, <1>1, <1>2, PTL DEF Spec

-----------------------------------------------------------------------------
(* An event that comes alone: while main holds it nothing touches the      *)
(* context but main, so what main reads in several accesses is one event.  *)

Handling == main \in {"RDato", "branch", "Estado"}

HandlingInv ==
  /\ Handling => IsrDone /\ ctx.Estado = LastStatus /\ ctx.Dato = LastCode
  /\ main = "branch" => RDato = LastCode
  /\ main = "Dato" => IsrDone /\ ctx.Estado = {}
  /\ IsrDone /\ ctx.Estado # {} => ctx.Dato = LastCode

LEMMA HandlingInit == Init => HandlingInv
BY SMT DEF Init, HandlingInv, Handling, Cleared

(* For any keyboard: what main is at work on is not empty.                 *)
BusyInv == Handling => ctx.Estado # {}

LEMMA BusyStep == TypeInv /\ BusyInv /\ [Next]_vars => BusyInv'
<1> SUFFICES ASSUME TypeInv, BusyInv, [Next]_vars PROVE BusyInv'
  OBVIOUS
<1> USE DEF BusyInv, Handling
<1>1. CASE IsrReadEstado
  BY <1>1, SMT DEF IsrReadEstado, IsrRead, IsrStep, Irq, TypeInv, TypeOK
<1>2. CASE Isr /\ ~IsrReadEstado
  <2>1. ctx'.Estado = ctx.Estado /\ main' = main
    BY <1>2, SMT
    DEF Isr, IsrReadDato, IsrReadControl1, IsrWriteAck, IsrFormAddress, IsrReadControl2,
        IsrReadEstado2, IsrRead, IsrStep, TypeInv, TypeOK
  <2> QED
    BY <2>1
<1>3. CASE Main
  <2> USE <1>3 DEF MainStep
  <2>1. CASE MainTest \/ MainReadDato \/ MainNoteOn \/ MainNoteOff
    BY <2>1, SMT DEF MainTest, MainReadDato, MainNoteOn, MainNoteOff
  <2>2. CASE MainBoot \/ MainWriteCodec
    BY <2>2, SMT DEF MainBoot, MainWriteCodec
  <2>3. ASSUME NEW f \in DOMAIN Cleared, MainClear(f) PROVE BusyInv'
    BY <2>3, SMT DEF MainClear, Cleared, NextField
  <2> QED
    BY <2>1, <2>2, <2>3 DEF Main
<1>4. CASE DecoderPulse \/ UNCHANGED vars
  BY <1>4, SMT DEF DecoderPulse, vars, cpu
<1>5. CASE Reset
  BY <1>5, SMT DEF Reset
<1> QED
  BY <1>1, <1>2, <1>3, <1>4, <1>5 DEF Next

(* An event that finds main without another.                               *)
LEMMA HandlingEvent ==
  ASSUME BusyInv, DecoderPulse, MainDone
  PROVE  HandlingInv'
<1> USE DEF HandlingInv, Handling, IsrDone
<1>1. PICK e \in Playable : Stroke(e) /\ Clock(e, 0)
  BY DEF DecoderPulse
<1>2. RegEstado' # {}
  BY <1>1, ClockPulse, StatusBitI, SMT DEF Playable
<1>3. ~Handling /\ main # "Dato"
  BY SMT DEF MainDone, BusyInv
<1> QED
  BY <1>2, <1>3, SMT DEF DecoderPulse, cpu

LEMMA HandlingQuiet ==
  TypeInv /\ DeliveryInv /\ HandlingInv /\ [Next]_vars /\ Quiet => HandlingInv'
<1> SUFFICES ASSUME TypeInv, DeliveryInv, HandlingInv, [Next]_vars, Quiet
             PROVE  HandlingInv'
  OBVIOUS
<1> USE DEF HandlingInv, Handling, IsrDone, LastStatus, LastCode
<1>1. ~DecoderPulse
  BY DEF Quiet
<1>2. CASE Isr
  <2>1. CASE IsrReadEstado2
    BY <2>1, ClockIdle, SMT
    DEF IsrReadEstado2, IsrRead, IsrStep, DeliveryInv, Copied, player, locals, TypeInv, TypeOK
  <2>2. ASSUME ~IsrReadEstado2 PROVE HandlingInv'
    <3>1. isr' # "off" /\ main' = main
      BY <1>2, <2>2, SMT
      DEF Isr, IsrReadEstado, IsrReadDato, IsrReadControl1, IsrWriteAck,
          IsrFormAddress, IsrReadControl2, IsrRead, IsrStep
    <3>2. ~IsrDone
      BY <1>2, <2>2, SMT
      DEF Isr, IsrReadEstado, IsrReadDato, IsrReadControl1, IsrWriteAck,
          IsrFormAddress, IsrReadControl2, IsrRead, IsrStep, Irq
    <3> QED
      BY <3>1, <3>2, SMT
  <2> QED
    BY <2>1, <2>2
<1>3. CASE Main
  <2> USE <1>3, ClockIdle DEF MainStep, player, locals
  <2>1. CASE MainBoot
    BY <2>1, SMT DEF MainBoot, Cleared
  <2>2. CASE MainTest
    <3>1. IsrDone
      BY <2>2, StatusBitI, SMT DEF MainTest, irqOn, Irq, DeliveryInv
    <3> QED
      BY <2>2, <3>1, SMT DEF MainTest, DeliveryInv
  <2>3. CASE MainReadDato
    BY <2>3, SMT DEF MainReadDato
  <2>4. CASE MainNoteOn \/ MainNoteOff
    BY <2>4, SMT DEF MainNoteOn, MainNoteOff
  <2>5. ASSUME NEW f \in DOMAIN Cleared, MainClear(f) PROVE HandlingInv'
    <3> USE <2>5 DEF MainClear, TypeInv, TypeOK
    <3>1. CASE f = "Estado"
      BY <3>1, SMT DEF Cleared, NextField
    <3>2. CASE f = "Dato"
      BY <3>2, SMT DEF Cleared, NextField
    <3>3. CASE f \in {"Estado2", "Control1", "Control2"}
      BY <3>3, SMT DEF NextField
    <3> QED
      BY <3>1, <3>2, <3>3, SMT DEF Cleared
  <2>6. CASE MainWriteCodec
    BY <2>6, SMT DEF MainWriteCodec
  <2> QED
    BY <2>1, <2>2, <2>3, <2>4, <2>5, <2>6 DEF Main
<1>4. CASE Reset
  BY <1>4, SMT DEF Reset, Cleared
<1>5. CASE UNCHANGED vars
  BY <1>5, SMT DEF vars, regs, cpu, player, locals
<1> QED
  BY <1>1, <1>2, <1>3, <1>4, <1>5 DEF Next

LEMMA ResetHandled == Reset => DeliveryInv' /\ HandlingInv'
BY SMT DEF Reset, RegReset, DeliveryInv, HandlingInv, Handling, Copying, Copied,
           IsrDone, Cleared

(* For any keyboard: an event that found no other under way is delivered   *)
(* and handled whole, until the next one comes.                            *)
AloneInv == alone => DeliveryInv /\ HandlingInv

LEMMA AloneStep == TypeInv /\ BusyInv /\ AloneInv /\ [Next]_vars => AloneInv'
<1> SUFFICES ASSUME TypeInv, BusyInv, AloneInv, [Next]_vars, alone'
             PROVE  DeliveryInv' /\ HandlingInv'
  BY DEF AloneInv
<1>1. CASE DecoderPulse
  <2>1. IsrDone /\ MainDone
    BY <1>1, Zenon DEF DecoderPulse, Stroke
  <2> QED
    BY <1>1, <2>1, DeliveryEvent, HandlingEvent DEF MainDone
<1>2. CASE Reset
  BY <1>2, ResetHandled
<1>3. CASE ~DecoderPulse /\ ~Reset
  <2>1. IsrWriteAck => UNCHANGED player
    <3>1. ASSUME IsrWriteAck, NEW e, Stroke(e) PROVE FALSE
      <4>1. isr = "off"
        BY <3>1, Zenon DEF Stroke, IsrDone
      <4> QED
        BY <3>1, <4>1 DEF IsrWriteAck, IsrStep
    <3> QED
      BY <3>1 DEF IsrWriteAck
  <2>2. alone' = alone
    <3>1. Isr \/ Main => UNCHANGED player
      BY <2>1 DEF Isr, IsrReadEstado, IsrReadDato, IsrReadControl1, IsrFormAddress,
         IsrReadControl2, IsrReadEstado2, IsrRead, Main, MainBoot, MainTest,
         MainReadDato, MainNoteOn, MainNoteOff, MainClear, MainWriteCodec, MainStep
    <3> QED
      BY <1>3, <3>1 DEF Next, vars, player
  <2> QED
    BY <1>3, <2>1, <2>2, DeliveryQuiet, HandlingQuiet DEF AloneInv, Quiet
<1> QED
  BY <1>1, <1>2, <1>3

(* main never decides on the halves of two events: for any keyboard, an    *)
(* event that finds no other under way is decided on as it was played.     *)
THEOREM OneEvent == Spec => []DecidesOnOneEvent
<1>1. Init => BusyInv /\ AloneInv
  BY DeliveryInit, HandlingInit, SMT DEF Init, BusyInv, AloneInv, Handling
<1>2. AloneInv => DecidesOnOneEvent
  BY SMT DEF AloneInv, HandlingInv, Handling, DecidesOnOneEvent, LastStatus, LastCode
<1> QED
  BY TypeInit, TypeStep, BusyStep, AloneStep, <1>1, <1>2, PTL DEF Spec

-----------------------------------------------------------------------------
(* The key remembered in PrimeraTecla is down, or its release is the event *)
(* that has still to be handled.                                           *)

Unhandled == RegEstado # {} \/ (ctx.Estado # {} /\ main # "Estado")

Releasing(k) == Unhandled /\ lastEvent = [kind |-> "off", key |-> k]

FirstInv ==
  /\ lastEvent.kind = "on" => lastEvent.key \in held
  /\ n_teclas > 0 =>
       \E k \in Keys : PrimeraTecla = KeyCode(k) /\ (k \in held \/ Releasing(k))

LEMMA FirstInit == Init => FirstInv
BY SMT DEF Init, FirstInv, NoEvent

(* Only the decision of main settles an event.                             *)
LEMMA UnhandledStep ==
  ASSUME Pace = "paced", TypeInv, DeliveryInv, HandlingInv,
         Isr \/ Main, ~MainNoteOn, ~MainNoteOff, Unhandled
  PROVE  Unhandled'
<1> USE DEF Unhandled
<1>1. CASE Isr
  <2>1. isr # "off" \/ RegEstado # {}
    BY <1>1, SMT
    DEF Isr, IsrReadEstado, IsrReadDato, IsrReadControl1, IsrWriteAck, IsrFormAddress,
        IsrReadControl2, IsrReadEstado2, IsrRead, IsrStep, Irq
  <2>2. main # "Estado" /\ main' = main
    BY <1>1, <2>1, SMT
    DEF Isr, IsrReadEstado, IsrReadDato, IsrReadControl1, IsrWriteAck, IsrFormAddress,
        IsrReadControl2, IsrReadEstado2, IsrRead, IsrStep, HandlingInv, Handling, IsrDone
  <2>3. CASE IsrWriteAck
    BY <2>2, <2>3, StatusBitI, SMT
    DEF IsrWriteAck, IsrStep, DeliveryInv, Copying, LastStatus
  <2>4. CASE IsrReadEstado \/ IsrReadDato \/ IsrReadControl1
    BY <2>4, ClockIdle, StatusBitI, SMT
    DEF IsrReadEstado, IsrReadDato, IsrReadControl1, IsrRead, IsrStep, DeliveryInv,
        Copying, LastStatus, Irq
  <2>5. CASE IsrFormAddress \/ IsrReadControl2 \/ IsrReadEstado2
    <3>1. ctx'.Estado = ctx.Estado
      BY <2>5, SMT
      DEF IsrFormAddress, IsrReadControl2, IsrReadEstado2, IsrRead, IsrStep, TypeInv, TypeOK
    <3>2. ctx.Estado # {}
      BY <2>5, StatusBitI, SMT
      DEF IsrFormAddress, IsrReadControl2, IsrReadEstado2, IsrRead, IsrStep, DeliveryInv,
          Copied, LastStatus
    <3> QED
      BY <2>2, <3>1, <3>2
  <2> QED
    BY <1>1, <2>3, <2>4, <2>5 DEF Isr
<1>2. CASE Main
  <2> USE <1>2, ClockIdle DEF MainStep
  <2>1. CASE MainBoot
    BY <2>1, SMT DEF MainBoot, DeliveryInv
  <2>2. CASE MainTest \/ MainReadDato \/ MainWriteCodec
    BY <2>2, SMT DEF MainTest, MainReadDato, MainWriteCodec
  <2>3. ASSUME NEW f \in DOMAIN Cleared, MainClear(f) PROVE Unhandled'
    <3> USE <2>3 DEF MainClear, TypeInv, TypeOK
    <3>1. CASE f = "Estado"
      BY <3>1, SMT DEF HandlingInv, Handling, IsrDone
    <3>2. CASE f \in {"Dato", "Estado2", "Control1", "Control2"}
      BY <3>2, SMT DEF NextField
    <3> QED
      BY <3>1, <3>2, SMT DEF Cleared
  <2> QED
    BY <1>2, <2>1, <2>2, <2>3 DEF Main
<1> QED
  BY <1>1, <1>2

(* A paced keyboard is quiet while irqhandler runs, at the ACK too.        *)
LEMMA NoStrokeAtAck ==
  ASSUME Pace = "paced", IsrWriteAck
  PROVE  UNCHANGED player
BY SMT DEF IsrWriteAck, IsrStep, Admitted, IsrDone

LEMMA FirstStep ==
  ASSUME Pace = "paced"
  PROVE  TypeInv /\ DeliveryInv /\ HandlingInv /\ FirstInv /\ [Next]_vars => FirstInv'
<1> SUFFICES ASSUME TypeInv, DeliveryInv, HandlingInv, FirstInv, [Next]_vars
             PROVE  FirstInv'
  OBVIOUS
<1> USE DEF FirstInv
<1>1. CASE DecoderPulse
  <2>1. PICK e \in Playable : Stroke(e) /\ Clock(e, 0)
    BY <1>1 DEF DecoderPulse
  <2>2. e \in Event /\ (e.kind = "on" <=> e.key \notin held)
    BY DEF Playable
  <2>3. ~Unhandled /\ Unhandled'
    <3>1. RegEstado = {} /\ ctx.Estado = {}
      BY <1>1, SMT DEF DecoderPulse, Admitted, IsrDone, MainDone
    <3>2. RegEstado' # {}
      BY <2>1, <2>2, ClockPulse, StatusBitI
    <3> QED
      BY <3>1, <3>2, SMT DEF Unhandled
  <2>4. lastEvent'.kind = "on" => lastEvent'.key \in held'
    BY <2>1, SMT DEF Stroke
  <2>5. ASSUME n_teclas' > 0
        PROVE  \E k \in Keys : PrimeraTecla' = KeyCode(k) /\ (k \in held' \/ Releasing(k)')
    <3>1. PICK k \in Keys : PrimeraTecla = KeyCode(k) /\ k \in held
      BY <1>1, <2>3, <2>5, SMT DEF DecoderPulse, cpu, locals, Releasing
    <3>2. CASE k = e.key
      <4>1. e = [kind |-> "off", key |-> k]
        BY <2>2, <3>1, <3>2, SMT DEF Event
      <4> QED
        BY <1>1, <2>1, <2>3, <3>1, <4>1, SMT DEF DecoderPulse, cpu, locals, Releasing, Stroke
    <3>3. CASE k # e.key
      BY <1>1, <2>1, <3>1, <3>3, SMT DEF DecoderPulse, cpu, locals, Stroke
    <3> QED
      BY <3>2, <3>3
  <2> QED
    BY <2>4, <2>5
<1>2. CASE (Isr \/ Main) /\ ~MainNoteOn /\ ~MainNoteOff
  <2>1. held' = held /\ lastEvent' = lastEvent
    BY <1>2, NoStrokeAtAck, SMT
    DEF Isr, IsrReadEstado, IsrReadDato, IsrReadControl1, IsrFormAddress, IsrReadControl2,
        IsrReadEstado2, IsrRead, Main, MainBoot, MainTest, MainReadDato, MainClear,
        MainWriteCodec, MainStep, player
  <2>2. PrimeraTecla' = PrimeraTecla /\ n_teclas' = n_teclas
    BY <1>2, SMT
    DEF Isr, IsrReadEstado, IsrReadDato, IsrReadControl1, IsrWriteAck, IsrFormAddress,
        IsrReadControl2, IsrReadEstado2, IsrRead, IsrStep, Main, MainBoot, MainTest,
        MainReadDato, MainClear, MainWriteCodec, locals
  <2>3. Unhandled => Unhandled'
    BY <1>2, UnhandledStep
  <2> QED
    BY <2>1, <2>2, <2>3, SMT DEF Releasing
<1>3. CASE MainNoteOn
  <2> USE <1>3 DEF MainNoteOn, MainStep, player
  <2>1. lastEvent.kind = "on" /\ RDato = KeyCode(lastEvent.key)
    BY StatusBitI, SMT DEF HandlingInv, Handling, LastStatus, LastCode
  <2>2. lastEvent.key \in held /\ lastEvent.key \in Keys
    BY <2>1, SMT DEF TypeInv, TypeOK
  <2>3. CASE n_teclas = 0
    BY <2>1, <2>2, <2>3, SMT
  <2>4. CASE n_teclas # 0
    <3>1. n_teclas > 0
      BY <2>4, SMT DEF TypeInv, TypeOK
    <3>2. PICK k \in Keys : PrimeraTecla = KeyCode(k) /\ k \in held
      BY <2>1, <3>1, SMT DEF Releasing
    <3> QED
      BY <2>1, <2>2, <2>4, <3>2, SMT
  <2> QED
    BY <2>3, <2>4
<1>4. CASE MainNoteOff
  <2> USE <1>4 DEF MainNoteOff, MainStep, player
  <2>1. RDato = KeyCode(lastEvent.key)
    BY DEF HandlingInv, LastCode
  <2>2. CASE RDato = PrimeraTecla
    BY <2>2, SMT
  <2>3. CASE RDato # PrimeraTecla
    <3>1. ASSUME NEW k \in Keys, PrimeraTecla = KeyCode(k) PROVE ~Releasing(k)
      BY <2>1, <2>3, <3>1, SMT DEF Releasing
    <3> QED
      BY <2>3, <3>1, SMT
  <2> QED
    BY <2>2, <2>3
<1>5. CASE Reset
  BY <1>5, SMT DEF Reset, NoEvent
<1>6. CASE UNCHANGED vars
  BY <1>6, SMT DEF vars, regs, player, cpu, locals, Releasing, Unhandled
<1> QED
  BY <1>1, <1>2, <1>3, <1>4, <1>5, <1>6 DEF Next

(* Type, delivery, handling and first key: inductive for a paced keyboard. *)
PacedInv ==
  /\ TypeInv /\ BusyInv /\ DeliveryInv /\ HandlingInv /\ FirstInv
  /\ CountMatchesVoice /\ alone

(* With a paced keyboard every event comes alone.                          *)
LEMMA PacedAlone ==
  ASSUME Pace = "paced"
  PROVE  alone /\ [Next]_vars => alone'
<1> SUFFICES ASSUME alone, [Next]_vars PROVE alone'
  OBVIOUS
<1>1. CASE DecoderPulse
  <2>1. IsrDone /\ MainDone
    BY <1>1, SMT DEF DecoderPulse, Admitted
  <2> QED
    BY <1>1, <2>1, Zenon DEF DecoderPulse, Stroke
<1>2. CASE Isr \/ Main \/ UNCHANGED vars
  BY <1>2, NoStrokeAtAck
  DEF Isr, IsrReadEstado, IsrReadDato, IsrReadControl1, IsrFormAddress, IsrReadControl2,
      IsrReadEstado2, IsrRead, Main, MainBoot, MainTest, MainReadDato, MainNoteOn,
      MainNoteOff, MainClear, MainWriteCodec, MainStep, vars, player
<1>3. CASE Reset
  BY <1>3, Zenon DEF Reset
<1> QED
  BY <1>1, <1>2, <1>3 DEF Next

LEMMA PacedInvariant ==
  ASSUME Pace = "paced"
  PROVE  Spec => []PacedInv
<1>1. Init => PacedInv
  BY TypeInit, DeliveryInit, HandlingInit, FirstInit, SMT
  DEF PacedInv, Init, CountMatchesVoice, BusyInv, Handling
<1>2. PacedInv /\ [Next]_vars => PacedInv'
  BY TypeStep, BusyStep, AloneStep, PacedAlone, FirstStep, CountStep
  DEF PacedInv, AloneInv
<1> QED
  BY <1>1, <1>2, PTL DEF Spec

(* With a paced keyboard the voice can always be stopped: the key whose    *)
(* release main waits for is down.                                         *)
THEOREM FirstKey ==
  ASSUME Pace = "paced"
  PROVE  Spec => []FirstKeyHeld
<1>1. PacedInv => FirstKeyHeld
  BY DEF PacedInv, FirstInv, FirstKeyHeld, Settled, Releasing, Unhandled, IsrDone
<1> QED
  BY <1>1, PacedInvariant, PTL

(* With a paced keyboard no note of a key is left sounding when all keys   *)
(* are up: the conclusion the player hears.                                *)
THEOREM Silence ==
  ASSUME Pace = "paced"
  PROVE  Spec => []SilentWhenReleased
<1>1. ASSUME PacedInv, Settled, held = {} PROVE SoundReg.enable = 0 \/ SoundReg = BootNote
  <2>1. n_teclas = 0
    <3>1. FirstKeyHeld
      BY <1>1 DEF PacedInv, FirstInv, FirstKeyHeld, Settled, Releasing, Unhandled, IsrDone
    <3> QED
      BY <1>1, <3>1, SMT DEF FirstKeyHeld, PacedInv, TypeInv, TypeOK
  <2>2. notavel.enable = 0 \/ notavel = BootNote
    BY <1>1, <2>1, SMT DEF PacedInv, CountMatchesVoice, TypeInv, TypeOK, Note
  <2> QED
    BY <1>1, <2>2 DEF Settled
<1>2. PacedInv => SilentWhenReleased
  BY <1>1 DEF SilentWhenReleased
<1> QED
  BY <1>2, PacedInvariant, PTL

(* With a paced keyboard the key registered on a press is the key of that  *)
(* press (main.c:144): only an event that comes in between can be taken    *)
(* with the key of another.                                                *)
THEOREM PressedKey ==
  ASSUME Pace = "paced"
  PROVE  Spec => RegistersPressedKey
<1>1. PacedInv /\ [Next]_vars
        => [n_teclas' > n_teclas => notavel'.key = KeyCode(lastEvent.key)]_vars
  <2> SUFFICES ASSUME PacedInv, Next
               PROVE  n_teclas' > n_teclas => notavel'.key = KeyCode(lastEvent.key)
    OBVIOUS
  <2>1. n_teclas \in Nat
    BY DEF PacedInv, TypeInv, TypeOK
  <2>2. CASE MainNoteOn
    <3>1. RDato = LastCode
      BY <2>2 DEF MainNoteOn, MainStep, PacedInv, HandlingInv
    <3> QED
      BY <2>2, <3>1 DEF MainNoteOn, LastCode
  <2>3. CASE MainNoteOff \/ Reset
    BY <2>1, <2>3, SMT DEF MainNoteOff, Reset
  <2>4. CASE UNCHANGED n_teclas
    BY <2>1, <2>4
  <2>5. DecoderPulse \/ Isr => UNCHANGED n_teclas
    BY DEF DecoderPulse, Isr, IsrReadEstado, IsrReadDato, IsrReadControl1, IsrWriteAck,
       IsrFormAddress, IsrReadControl2, IsrReadEstado2, IsrRead, IsrStep, cpu, locals
  <2>6. Main => UNCHANGED n_teclas \/ MainNoteOn \/ MainNoteOff
    BY DEF Main, MainBoot, MainTest, MainReadDato, MainClear, MainWriteCodec, locals
  <2> QED
    BY <2>2, <2>3, <2>4, <2>5, <2>6 DEF Next
<1> QED
  BY <1>1, PacedInvariant, PTL DEF Spec, RegistersPressedKey

-----------------------------------------------------------------------------
(* Every step of the whole path is a step of MonoSynth or none.            *)

(* irqhandler moves the pending event and does not change it.              *)
LEMMA IsrKeepsPending ==
  ASSUME Pace = "paced", TypeInv, DeliveryInv, HandlingInv, Isr
  PROVE  Pending' = Pending
<1> USE DEF Pending
<1>1. main # "Estado" /\ main' = main
  BY SMT
  DEF Isr, IsrReadEstado, IsrReadDato, IsrReadControl1, IsrWriteAck, IsrFormAddress,
      IsrReadControl2, IsrReadEstado2, IsrRead, IsrStep, HandlingInv, Handling, IsrDone, Irq
<1>2. CASE IsrReadEstado \/ IsrReadDato \/ IsrReadControl1
  <2>1. RegEstado # {} /\ RegEstado' = RegEstado /\ RegDatos' = RegDatos
    BY <1>2, ClockIdle, SMT
    DEF IsrReadEstado, IsrReadDato, IsrReadControl1, IsrRead, IsrStep, DeliveryInv,
        Copying, Irq
  <2> QED
    BY <2>1 DEF Heard
<1>3. CASE IsrWriteAck
  <2>1. Clock(NoEvent, ACK) /\ ctx' = ctx /\ isr = "ack"
    BY <1>3, SMT DEF IsrWriteAck, IsrStep, Admitted, IsrDone
  <2>2. RegEstado # {} /\ ctx.Estado = RegEstado /\ ctx.Dato = RegDatos
    BY <2>1, SMT DEF DeliveryInv, Copying
  <2>3. RegEstado' = {}
    BY <2>1, ClockAck
  <2> QED
    BY <1>1, <2>1, <2>2, <2>3 DEF Heard
<1>4. CASE IsrFormAddress \/ IsrReadControl2 \/ IsrReadEstado2
  <2>1. RegEstado' = RegEstado /\ RegDatos' = RegDatos
    BY <1>4, ClockIdle DEF IsrFormAddress, IsrReadControl2, IsrReadEstado2, IsrRead
  <2>2. ctx'.Estado = ctx.Estado /\ ctx'.Dato = ctx.Dato
    BY <1>4, SMT DEF IsrFormAddress, IsrReadControl2, IsrReadEstado2, IsrRead, TypeInv, TypeOK
  <2> QED
    BY <1>1, <2>1, <2>2 DEF Heard
<1> QED
  BY <1>2, <1>3, <1>4 DEF Isr

(* Nor does main, but when it decides on the event.                        *)
LEMMA MainKeepsPending ==
  ASSUME Pace = "paced", TypeInv, DeliveryInv, HandlingInv,
         Main, ~MainNoteOn, ~MainNoteOff
  PROVE  Pending' = Pending
<1> USE DEF Pending, MainStep
<1>1. RegEstado' = RegEstado /\ RegDatos' = RegDatos
  BY ClockIdle DEF Main, MainBoot, MainTest, MainReadDato, MainClear, MainWriteCodec
<1>2. CASE MainBoot
  BY <1>1, <1>2, SMT DEF MainBoot, DeliveryInv, Cleared, Heard
<1>3. CASE MainTest \/ MainReadDato \/ MainWriteCodec
  BY <1>1, <1>3, SMT DEF MainTest, MainReadDato, MainWriteCodec, Heard
<1>4. ASSUME NEW f \in DOMAIN Cleared, MainClear(f) PROVE Pending' = Pending
  <2> USE <1>1, <1>4 DEF MainClear, TypeInv, TypeOK
  <2>1. CASE f \in {"Estado", "Dato"}
    BY <2>1, SMT DEF HandlingInv, Handling, IsrDone, Cleared, NextField, Heard
  <2>2. CASE f \in {"Estado2", "Control1", "Control2"}
    BY <2>2, SMT DEF NextField, Heard
  <2> QED
    BY <2>1, <2>2, SMT DEF Cleared
<1> QED
  BY <1>2, <1>3, <1>4 DEF Main

LEMMA SynthInit == Init => Synth!Init
BY PianoAssumption, SMT
DEF Init, RegInit, Synth!Init, Pending, Synth!Nothing, Cleared, BootNote

LEMMA SynthStep ==
  ASSUME Pace = "paced"
  PROVE  PacedInv /\ [Next]_vars => [Synth!Next]_(Synth!vars)
<1> SUFFICES ASSUME TypeInv, DeliveryInv, HandlingInv, [Next]_vars
             PROVE  Synth!Next \/ UNCHANGED Synth!vars
  BY DEF PacedInv
<1> USE DEF Synth!vars, Synth!Nothing
<1>1. CASE DecoderPulse
  <2>1. PICK e \in Playable : Stroke(e) /\ Clock(e, 0)
    BY <1>1 DEF DecoderPulse
  <2>2. e \in Event /\ RegEstado = {} /\ ctx.Estado = {}
    BY <1>1, SMT DEF Playable, DecoderPulse, Admitted, IsrDone, MainDone
  <2>3. RegEstado' = StatusOf(e.kind) /\ RegDatos' = KeyCode(e.key)
    BY <2>1, <2>2, ClockPulse
  <2>4. Pending = Synth!Nothing
    BY <2>2 DEF Pending
  <2>5. Pending' = [kind |-> e.kind, code |-> KeyCode(e.key)]
    BY <2>2, <2>3, StatusBitI, SMT DEF Pending, Heard, Event
  <2>6. Pending' \in Synth!Events
    BY <2>2, <2>5, SMT DEF Synth!Events, Event
  <2> QED
    BY <1>1, <2>4, <2>6 DEF Synth!Next, Synth!Play, DecoderPulse, cpu, locals
<1>2. CASE Isr
  <2>1. UNCHANGED <<locals, SoundReg>>
    BY <1>2 DEF Isr, IsrReadEstado, IsrReadDato, IsrReadControl1, IsrWriteAck,
                IsrFormAddress, IsrReadControl2, IsrReadEstado2, IsrRead, IsrStep
  <2> QED
    BY <1>2, <2>1, IsrKeepsPending DEF locals
<1>3. CASE Main /\ ~MainNoteOn /\ ~MainNoteOff /\ ~MainWriteCodec
  <2>1. UNCHANGED <<notavel, PrimeraTecla, n_teclas, SoundReg>>
    BY <1>3 DEF Main, MainBoot, MainTest, MainReadDato, MainClear, locals
  <2> QED
    BY <1>3, <2>1, MainKeepsPending
<1>4. CASE MainNoteOn
  <2>1. RegEstado = {} /\ ctx.Estado = {"O", "I"} /\ ctx.Dato = RDato /\ main = "branch"
    BY <1>4, SMT DEF MainNoteOn, MainStep, HandlingInv, Handling, IsrDone
  <2>2. Pending = [kind |-> "on", code |-> RDato]
    BY <2>1, SMT DEF Pending, Heard
  <2>3. Pending' = Synth!Nothing
    BY <1>4, <2>1, ClockIdle, SMT DEF MainNoteOn, MainStep, Pending
  <2> QED
    BY <1>4, <2>2, <2>3, SMT DEF MainNoteOn, Synth!Next, Synth!Press
<1>5. CASE MainNoteOff
  <2>1. /\ RegEstado = {} /\ ctx.Estado # {} /\ ctx.Estado # {"O", "I"}
        /\ ctx.Dato = RDato /\ main = "branch"
    BY <1>5, StatusBitI, SMT DEF MainNoteOff, MainStep, HandlingInv, Handling, IsrDone, LastStatus
  <2>2. Pending = [kind |-> "off", code |-> RDato]
    BY <2>1, SMT DEF Pending, Heard
  <2>3. Pending' = Synth!Nothing
    BY <1>5, <2>1, ClockIdle, SMT DEF MainNoteOff, MainStep, Pending
  <2> QED
    BY <1>5, <2>2, <2>3, SMT DEF MainNoteOff, Synth!Next, Synth!Release
<1>6. CASE MainWriteCodec
  <2>1. Pending' = Pending
    BY <1>6, MainKeepsPending, SMT DEF Main, MainWriteCodec, MainNoteOn, MainNoteOff, MainStep
  <2> QED
    BY <1>6, <2>1, SMT DEF MainWriteCodec, locals, Synth!Next, Synth!Sound
<1>7. CASE Reset
  <2>1. Pending' = Synth!Nothing
    BY <1>7, SMT DEF Reset, RegReset, Pending, Cleared
  <2> QED
    BY <1>7, <2>1, PianoAssumption, SMT DEF Reset, Synth!Next, Synth!Reset
<1>8. CASE UNCHANGED vars
  BY <1>8, SMT DEF vars, regs, player, cpu, locals, Pending, Heard
<1> QED
  BY <1>1, <1>2, <1>3, <1>4, <1>5, <1>6, <1>7, <1>8 DEF Next

(* With a paced keyboard registers, interrupt, context and loop implement  *)
(* the monophonic synthesiser: each behaviour of Piano is one of its, as   *)
(* far as safety goes.                                                     *)
THEOREM Refinement ==
  ASSUME Pace = "paced"
  PROVE  Spec => Synth!SafeSpec
<1>1. PacedInv /\ [Next]_vars => [Synth!Next]_(Synth!vars)
  BY SynthStep
<1> QED
  BY SynthInit, <1>1, PacedInvariant, PTL DEF Spec, Synth!SafeSpec
=============================================================================
