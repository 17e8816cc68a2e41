------------------------- MODULE MidiDecoderProofs -------------------------
(***************************************************************************)
(* Proofs about MidiDecoder, for any status and data bytes, any gap of at  *)
(* least four cycles between bytes, any number of messages, faults and     *)
(* resets.                                                                 *)
(*                                                                         *)
(* The argument looks ahead.  A byte takes up to four cycles to be worked  *)
(* off, and the next one comes no sooner, so the state in which the        *)
(* decoder will wait for it, and what its registers will then hold, are    *)
(* known as soon as a byte is there (Target, CodeNext, KeyNext, VelNext).  *)
(* A clock edge without a byte changes none of them; a byte changes them   *)
(* as if the decoder took it at once.  What is left is to compare Target   *)
(* with the position of the keyboard in its message (SyncInv).             *)
(***************************************************************************)
EXTENDS MidiDecoder, TLAPS

NoteByte(b) == b \div 32 = 4

(* Where the decoder goes from e0, and from e9, with a byte.               *)
First(b) == IF NoteByte(b) THEN "e2" ELSE "e0"
Again(b) == IF b < 128 THEN "e4" ELSE First(b)

(* The state in which the decoder waits for the next byte.                 *)
Target ==
  CASE ep2 = "e0"  -> IF ready2 = 1 THEN First(code2) ELSE "e0"
    [] ep2 = "e1"  -> First(code2)
    [] ep2 = "e10" -> IF tipo1 THEN "e2" ELSE "e0"
    [] ep2 = "e2"  -> IF ready2 = 1 THEN "e4" ELSE "e2"
    [] ep2 = "e3"  -> "e4"
    [] ep2 = "e4"  -> IF ready2 = 1 THEN "e9" ELSE "e4"
    [] ep2 \in {"e5", "e6", "e7", "e8"} -> "e9"
    [] ep2 = "e9"  -> IF ready2 = 1 THEN Again(code2) ELSE "e9"

(* The byte at hand is taken as a status byte, a key, a velocity.          *)
TakesStatus ==
  ep2 = "e1" \/ (ready2 = 1 /\ (ep2 = "e0" \/ (ep2 = "e9" /\ code2 >= 128)))
TakesKey ==
  ep2 = "e3" \/ (ready2 = 1 /\ (ep2 = "e2" \/ (ep2 = "e9" /\ code2 < 128)))
TakesVel    == ep2 = "e5" \/ (ready2 = 1 /\ ep2 = "e4")

(* What the registers hold when it has been taken.                         *)
CodeNext == IF TakesStatus THEN code2 \div 16 ELSE code_reg
KeyNext  == IF TakesKey THEN code2 % 128 ELSE key
VelNext  == IF TakesVel THEN code2 % 128 ELSE vel

(* A note is about to be reported.                                         *)
Reporting == TakesVel \/ ep2 \in {"e6", "e7", "e8"}

(* The decoder is done with a byte when the next one arrives.              *)
PhaseInv ==
  /\ ready2 = 1 => gap = 1 /\ ep2 \in {"e0", "e2", "e4", "e9"}
  /\ ep2 \in {"e1", "e3", "e5"} => gap = 2
  /\ ep2 \in {"e10", "e6"} => gap = 3
  /\ ep2 \in {"e7", "e8"} => gap = 4
  /\ ep2 = "e7" => C4 = 0
  /\ ep2 = "e8" => C4 = 1

(* The keyboard's own state.                                               *)
SenderInv ==
  /\ pos # "none" => msg \in Message /\ msg.status = running
  /\ pos = "data2" => ~IsShort(msg)

(* In step, and the two ways of coming back to it: after one long status   *)
(* byte the decoder waits for a key only where a key is next; after two it *)
(* is in e0 or e9 where a status byte is next.                             *)
StepThree ==
  /\ pos = "none" => /\ Target = IF NoteByte(running) THEN "e9" ELSE "e0"
                     /\ NoteByte(running) => CodeNext = running \div 16
  /\ pos = "status" => Target \in {"e0", "e9"}
  /\ pos \in {"data1", "data2"} /\ ~IsNote(msg) => Target = "e0"
  /\ pos = "data1" /\ IsNote(msg) =>
       Target \in {"e2", "e9"} /\ CodeNext = msg.status \div 16
  /\ pos = "data2" /\ IsNote(msg) =>
       /\ Target = "e4" /\ CodeNext = msg.status \div 16
       /\ KeyNext = msg.data1
  /\ Reporting => owedNote # NoMessage

StepTwo ==
  /\ pos \in {"none", "status"} => Target \in {"e0", "e9"}
  /\ pos = "none" /\ running \div 32 = 6 => Target = "e0"
  /\ pos = "data1" => Target \in {"e0", "e2", "e9"}
  /\ pos = "data1" /\ IsShort(msg) => Target = "e0"
  /\ pos = "data2" => Target \in {"e0", "e4"}

StepOne == Target = "e2" => pos = "data1"

SyncInv ==
  /\ since = 3 => StepThree
  /\ since = 2 => StepTwo
  /\ since = 1 => StepOne

(* The note received whole is the one about to be reported.                *)
OwedInv ==
  owedNote # NoMessage =>
    /\ IsNote(owedNote) /\ Reporting
    /\ CodeNext = owedNote.status \div 16
    /\ KeyNext = owedNote.data1 /\ VelNext = owedNote.data2

Inv == DecoderTypeOK /\ PhaseInv /\ SenderInv /\ SyncInv /\ OwedInv

-----------------------------------------------------------------------------
(* Bytes.                                                                  *)
LEMMA ByteFacts ==
  ASSUME NEW b \in 0 .. 255
  PROVE  /\ b \div 16 \in 0 .. 15
         /\ (b \div 16) \div 2 = 4 <=> b \div 32 = 4
         /\ b % 128 \in 0 .. 127
         /\ b \div 128 = 0 <=> b < 128
         /\ b < 128 => b % 128 = b /\ b \div 32 # 4
         /\ b \div 32 = 4 => b >= 128 /\ b \div 32 # 6
OBVIOUS

LEMMA NibbleFacts ==
  ASSUME NEW c \in 0 .. 15
  PROVE  c % 2 \in {0, 1}
OBVIOUS

(* The bytes of a message.                                                 *)
LEMMA MessageBytes ==
  ASSUME NEW m \in Message
  PROVE  /\ m.status \in Statuses /\ m.status \in 128 .. 239
         /\ m.data1 \in 0 .. 127 /\ m.data2 \in 0 .. 127
         /\ m # NoMessage
<1>1. m.status \in Statuses /\ m.data1 \in Data /\ m.data2 \in Data
  BY DEF Message
<1>0. /\ \A s \in Statuses : s \in 128 .. 239
      /\ \A d \in Data : d \in 0 .. 127
  BY DecoderAssumption
<1>2. m.status \in 128 .. 239
  BY <1>0, <1>1
<1>4. m.data1 \in 0 .. 127 /\ m.data2 \in 0 .. 127
  BY <1>0, <1>1
<1>3. NoMessage.status = 0
  BY DEF NoMessage
<1> QED
  BY <1>1, <1>2, <1>3, <1>4

-----------------------------------------------------------------------------
(* The decoder.                                                            *)

(* The next state, state by state.                                         *)
LEMMA NextState ==
  /\ ep2 = "e0"  => es2 = IF ready2 = 1 THEN "e1" ELSE "e0"
  /\ ep2 = "e1"  => es2 = "e10"
  /\ ep2 = "e10" => es2 = IF tipo1 THEN "e2" ELSE "e0"
  /\ ep2 = "e2"  => es2 = IF ready2 = 1 THEN "e3" ELSE "e2"
  /\ ep2 = "e3"  => es2 = "e4"
  /\ ep2 = "e4"  => es2 = IF ready2 = 1 THEN "e5" ELSE "e4"
  /\ ep2 = "e5"  => es2 = "e6"
  /\ ep2 = "e6"  => es2 = IF C4 = 0 THEN "e7" ELSE "e8"
  /\ ep2 \in {"e7", "e8"} => es2 = "e9"
  /\ ep2 = "e9"  => es2 = IF ready2 = 0 THEN "e9"
                          ELSE IF code7 = 0 THEN "e3" ELSE "e1"
BY DEF es2

(* The look ahead, state by state.                                         *)
LEMMA TargetTable ==
  /\ ep2 = "e0"  => Target = IF ready2 = 1 THEN First(code2) ELSE "e0"
  /\ ep2 = "e1"  => Target = First(code2)
  /\ ep2 = "e10" => Target = IF tipo1 THEN "e2" ELSE "e0"
  /\ ep2 = "e2"  => Target = IF ready2 = 1 THEN "e4" ELSE "e2"
  /\ ep2 = "e3"  => Target = "e4"
  /\ ep2 = "e4"  => Target = IF ready2 = 1 THEN "e9" ELSE "e4"
  /\ ep2 \in {"e5", "e6", "e7", "e8"} => Target = "e9"
  /\ ep2 = "e9"  => Target = IF ready2 = 1 THEN Again(code2) ELSE "e9"
BY DEF Target

LEMMA TargetTableNext ==
  /\ ep2' = "e0"  => Target' = IF ready2' = 1 THEN First(code2') ELSE "e0"
  /\ ep2' = "e1"  => Target' = First(code2')
  /\ ep2' = "e10" => Target' = IF tipo1' THEN "e2" ELSE "e0"
  /\ ep2' = "e2"  => Target' = IF ready2' = 1 THEN "e4" ELSE "e2"
  /\ ep2' = "e3"  => Target' = "e4"
  /\ ep2' = "e4"  => Target' = IF ready2' = 1 THEN "e9" ELSE "e4"
  /\ ep2' \in {"e5", "e6", "e7", "e8"} => Target' = "e9"
  /\ ep2' = "e9"  => Target' = IF ready2' = 1 THEN Again(code2') ELSE "e9"
BY DEF Target

LEMMA TargetType ==
  ASSUME DecoderTypeOK
  PROVE  Target \in {"e0", "e2", "e4", "e9"}
BY TargetTable DEF DecoderTypeOK, DecoderStates, First, Again

(* The registers keep their types.                                         *)
LEMMA LoadTypes ==
  ASSUME DecoderTypeOK, DecoderEdge
  PROVE  /\ ep2' \in DecoderStates /\ code_reg' \in 0 .. 15
         /\ key' \in 0 .. 127 /\ vel' \in 0 .. 127
<1>1. ep2' \in DecoderStates
  BY NextState DEF DecoderEdge, DecoderTypeOK, DecoderStates
<1>2. code2 \div 16 \in 0 .. 15 /\ code2 % 128 \in 0 .. 127
  BY ByteFacts DEF DecoderTypeOK
<1> QED
  BY <1>1, <1>2 DEF DecoderEdge, Load, DecoderTypeOK

(* An edge without a byte: the look ahead stays.                           *)
LEMMA TickLook ==
  ASSUME DecoderTypeOK, PhaseInv, Tick
  PROVE  /\ Target' = Target
         /\ CodeNext' = CodeNext /\ KeyNext' = KeyNext /\ VelNext' = VelNext
         /\ PhaseInv'
         /\ Reporting' <=> Reporting /\ ~(n_on \/ n_off)
<1>1. /\ ep2' = es2 /\ Load /\ ready2' = 0 /\ code2' = code2
      /\ gap' = IF gap < MinGap THEN gap + 1 ELSE gap
  BY DEF Tick, DecoderEdge
<1>2. /\ ep2 \in DecoderStates /\ code2 \in 0 .. 255 /\ ready2 \in {0, 1}
      /\ gap \in Nat /\ MinGap \in Nat /\ MinGap >= 4
  BY DecoderAssumption DEF DecoderTypeOK
<1>3. /\ (code2 \div 16) \div 2 = 4 <=> NoteByte(code2)
      /\ code7 = 0 <=> code2 < 128
      /\ NoteByte(code2) => code2 >= 128
  BY <1>2, ByteFacts DEF NoteByte, code7
<1>4. C4 \in {0, 1}
  BY NibbleFacts DEF DecoderTypeOK, C4
<1>5. ep2 \in {"e1", "e3", "e5", "e10", "e6", "e7", "e8"} => ready2 = 0
  BY <1>2 DEF PhaseInv
<1>6. ep2 \notin {"e1"} => code_reg' = code_reg
  BY <1>1 DEF Load
<1>7. ep2 = "e1" => code_reg' = code2 \div 16
  BY <1>1 DEF Load
<1>8. Target' = Target
  <2>1. ep2 \in {"e0", "e2", "e4"} => Target' = Target
    BY <1>1, <1>2, NextState, TargetTable, TargetTableNext
  <2>2. ep2 = "e1" => Target' = Target
    <3>1. ep2 = "e1" => ep2' = "e10" /\ (tipo1' <=> NoteByte(code2))
      BY <1>1, <1>3, <1>7, NextState DEF tipo1
    <3> QED
      BY <3>1, TargetTable, TargetTableNext DEF First
  <2>3. ep2 = "e10" => Target' = Target
    BY <1>1, <1>5, NextState, TargetTable, TargetTableNext
  <2>4. ep2 \in {"e3", "e5", "e6", "e7", "e8"} => Target' = Target
    BY <1>1, NextState, TargetTable, TargetTableNext
  <2>5. ep2 = "e9" => Target' = Target
    BY <1>1, <1>2, <1>3, NextState, TargetTable, TargetTableNext DEF Again
  <2> QED
    BY <1>2, <2>1, <2>2, <2>3, <2>4, <2>5 DEF DecoderStates
<1>9. CodeNext' = CodeNext
  BY <1>1, <1>2, <1>3, <1>5, <1>6, <1>7, NextState DEF CodeNext, TakesStatus, DecoderStates
<1> DEFINE d == code2 % 128
<1>14. /\ key' = IF ep2 = "e3" THEN d ELSE key
       /\ vel' = IF ep2 = "e5" THEN d ELSE vel
  BY <1>1 DEF Load
<1>15. /\ KeyNext = IF TakesKey THEN d ELSE key
       /\ KeyNext' = IF TakesKey' THEN d ELSE key'
       /\ VelNext = IF TakesVel THEN d ELSE vel
       /\ VelNext' = IF TakesVel' THEN d ELSE vel'
  BY <1>1 DEF KeyNext, VelNext
<1> HIDE DEF d
<1>10. KeyNext' = KeyNext
  <2>1. TakesKey <=> ep2 = "e3" \/ ep2' = "e3"
    BY <1>1, <1>2, <1>3, NextState DEF TakesKey, DecoderStates
  <2>2. TakesKey' <=> ep2' = "e3"
    BY <1>1 DEF TakesKey
  <2>3. ep2 = "e3" => ep2' # "e3"
    BY <1>1, NextState
  <2> QED
    BY <1>14, <1>15, <2>1, <2>2, <2>3
<1>11. VelNext' = VelNext
  <2>1. TakesVel <=> ep2 = "e5" \/ ep2' = "e5"
    BY <1>1, <1>2, NextState DEF TakesVel, DecoderStates
  <2>2. TakesVel' <=> ep2' = "e5"
    BY <1>1 DEF TakesVel
  <2>3. ep2 = "e5" => ep2' # "e5"
    BY <1>1, NextState
  <2> QED
    BY <1>14, <1>15, <2>1, <2>2, <2>3
<1>12. PhaseInv'
  <2>1. ready2 = 1 => gap' = 2
    BY <1>1, <1>2 DEF PhaseInv
  <2>2. ep2 \in {"e1", "e3", "e5"} => gap' = 3
    BY <1>1, <1>2 DEF PhaseInv
  <2>3. ep2 \in {"e10", "e6"} => gap' = 4
    BY <1>1, <1>2 DEF PhaseInv
  <2>4. /\ ep2' \in {"e1", "e3"} => ready2 = 1 \/ ep2 = "e2"
        /\ ep2' = "e3" => ready2 = 1
        /\ ep2' = "e1" => ready2 = 1
        /\ ep2' = "e5" => ready2 = 1
        /\ ep2' = "e10" => ep2 = "e1"
        /\ ep2' = "e6" => ep2 = "e5"
        /\ ep2' \in {"e7", "e8"} => ep2 = "e6"
        /\ ep2' = "e7" => C4 = 0
        /\ ep2' = "e8" => C4 = 1
    BY <1>1, <1>2, <1>4, NextState DEF DecoderStates
  <2>5. ep2 = "e6" => C4' = C4
    BY <1>6 DEF C4
  <2> QED
    BY <1>1, <2>1, <2>2, <2>3, <2>4, <2>5 DEF PhaseInv
<1>13. Reporting' <=> Reporting /\ ~(n_on \/ n_off)
  BY <1>1, <1>2, <1>5, NextState DEF Reporting, TakesVel, n_on, n_off, DecoderStates
<1> QED
  BY <1>8, <1>9, <1>10, <1>11, <1>12, <1>13

(* A byte: the decoder waits for it, and takes it.                         *)
LEMMA ArriveLook ==
  ASSUME DecoderTypeOK, PhaseInv, NEW b \in 0 .. 255, Arrives(b)
  PROVE  /\ Target = "e0" => Target' = First(b)
         /\ Target = "e2" => Target' = "e4"
         /\ Target = "e4" => Target' = "e9"
         /\ Target = "e9" => Target' = Again(b)
         /\ CodeNext' = IF Target = "e0" \/ (Target = "e9" /\ b >= 128)
                        THEN b \div 16 ELSE CodeNext
         /\ KeyNext' = IF Target = "e2" \/ (Target = "e9" /\ b < 128)
                       THEN b % 128 ELSE KeyNext
         /\ VelNext' = IF Target = "e4" THEN b % 128 ELSE VelNext
         /\ PhaseInv'
         /\ Reporting' <=> Target = "e4"
         /\ Reporting => n_on \/ n_off
         /\ n_on \/ n_off => Target = "e9"
<1>1. /\ ep2' = es2 /\ Load /\ ready2' = 1 /\ code2' = b /\ gap' = 1
      /\ gap = MinGap
  BY DEF Arrives, DecoderEdge
<1>2. ep2 \in DecoderStates /\ ready2 \in {0, 1} /\ gap \in Nat /\ MinGap >= 4
  BY DecoderAssumption DEF DecoderTypeOK
<1>3. /\ ready2 = 0 /\ ep2 \in {"e0", "e2", "e4", "e7", "e8", "e9"}
  BY <1>1, <1>2 DEF PhaseInv, DecoderStates
<1>4. /\ ep2 \in {"e0", "e2", "e4", "e9"} => ep2' = ep2 /\ Target = ep2
      /\ ep2 \in {"e7", "e8"} => ep2' = "e9" /\ Target = "e9"
  BY <1>1, <1>3, NextState, TargetTable
<1>5. ep2' = Target /\ Target \in {"e0", "e2", "e4", "e9"}
  BY <1>3, <1>4
<1>6. /\ code_reg' = code_reg /\ CodeNext = code_reg
      /\ key' = key /\ KeyNext = key
      /\ vel' = vel /\ VelNext = vel
  BY <1>1, <1>3
  DEF Load, CodeNext, KeyNext, VelNext, TakesStatus, TakesKey, TakesVel
<1>7. /\ Target = "e0" => Target' = First(b)
      /\ Target = "e2" => Target' = "e4"
      /\ Target = "e4" => Target' = "e9"
      /\ Target = "e9" => Target' = Again(b)
  BY <1>1, <1>5, TargetTableNext DEF First, Again, NoteByte
<1>8. /\ TakesStatus' <=> Target = "e0" \/ (Target = "e9" /\ b >= 128)
      /\ TakesKey' <=> Target = "e2" \/ (Target = "e9" /\ b < 128)
      /\ TakesVel' <=> Target = "e4"
  BY <1>1, <1>5 DEF TakesStatus, TakesKey, TakesVel
<1>9. PhaseInv'
  BY <1>1, <1>5 DEF PhaseInv
<1>10. Reporting' <=> Target = "e4"
  BY <1>5, <1>8 DEF Reporting
<1>11. /\ Reporting => n_on \/ n_off
       /\ n_on \/ n_off => Target = "e9"
  BY <1>3, <1>4 DEF Reporting, TakesVel, n_on, n_off
<1> QED
  BY <1>1, <1>6, <1>7, <1>8, <1>9, <1>10, <1>11 DEF CodeNext, KeyNext, VelNext

-----------------------------------------------------------------------------
(* The keyboard.                                                           *)

(* The bytes of a message and their order.                                 *)
LEMMA AfterFacts ==
  /\ pos = "status" => ByteAt(msg, pos) = msg.status /\ After(msg, pos) = "data1"
  /\ pos = "data1" => /\ ByteAt(msg, pos) = msg.data1
                      /\ After(msg, pos) = IF IsShort(msg) THEN "none" ELSE "data2"
  /\ pos = "data2" => /\ ByteAt(msg, pos) = msg.data2
                      /\ ~IsShort(msg) => After(msg, pos) = "none"
BY DEF ByteAt, After, LastByte

(* A message is not of both kinds.                                         *)
LEMMA MessageKinds ==
  ASSUME NEW m \in Message
  PROVE  IsNote(m) => ~IsShort(m)
BY DEF IsNote, IsShort

(* What a byte sent leaves of the keyboard's state.                        *)
LEMMA SentSender ==
  ASSUME DecoderTypeOK, SenderInv, Sent, UNCHANGED <<msg, running>>
  PROVE  /\ SenderInv' /\ pos' \in {"none", "data1", "data2"}
         /\ pos = "status" => pos' = "data1"
         /\ pos = "data1" => pos' = IF IsShort(msg) THEN "none" ELSE "data2"
         /\ pos = "data2" => pos' = "none"
<1>1. pos \in {"status", "data1", "data2"} /\ pos' = After(msg, pos)
  BY DEF Sent, DecoderTypeOK
<1>2. IsShort(msg)' <=> IsShort(msg)
  BY DEF IsShort
<1> QED
  BY <1>1, <1>2, AfterFacts DEF SenderInv

(* The part of the type invariant that a byte disturbs.                    *)
LEMMA ArrivesTypes ==
  ASSUME DecoderTypeOK, NEW b \in 0 .. 255, Arrives(b)
  PROVE  /\ ep2' \in DecoderStates /\ code_reg' \in 0 .. 15
         /\ key' \in 0 .. 127 /\ vel' \in 0 .. 127
         /\ ready2' \in {0, 1} /\ code2' \in 0 .. 255 /\ gap' \in 0 .. MinGap
         /\ UNCHANGED <<msg, running, messages, presses>>
BY LoadTypes, DecoderAssumption DEF Arrives

-----------------------------------------------------------------------------
(* The steps.                                                              *)
LEMMA InitInv == DecoderInit => Inv
<1> SUFFICES ASSUME DecoderInit PROVE Inv
  OBVIOUS
<1>1. DecoderTypeOK
  BY DecoderAssumption DEF DecoderInit, DecoderTypeOK, DecoderStates, InStep
<1>2. ~NoteByte(0)
  BY DEF NoteByte
<1>3. Target = "e0"
  BY TargetTable DEF DecoderInit
<1>4. ~Reporting
  BY DEF DecoderInit, Reporting, TakesVel
<1>5. PhaseInv /\ SenderInv
  BY DEF DecoderInit, PhaseInv, SenderInv
<1>6. SyncInv
  BY <1>2, <1>3, <1>4 DEF DecoderInit, SyncInv, StepThree, InStep
<1>7. OwedInv
  BY DEF DecoderInit, OwedInv
<1> QED
  BY <1>1, <1>5, <1>6, <1>7 DEF Inv

(* The look ahead depends on the decoder and modulo1 only.                 *)
LEMMA SameLook ==
  ASSUME UNCHANGED <<fsm, uart>>
  PROVE  /\ Target' = Target /\ CodeNext' = CodeNext
         /\ KeyNext' = KeyNext /\ VelNext' = VelNext
         /\ Reporting' <=> Reporting
         /\ PhaseInv' <=> PhaseInv
<1>1. /\ ep2' = ep2 /\ code_reg' = code_reg /\ key' = key /\ vel' = vel
      /\ ready2' = ready2 /\ code2' = code2 /\ gap' = gap
  BY DEF fsm, uart
<1>2. Target' = Target
  BY <1>1 DEF Target, tipo1
<1>3. CodeNext' = CodeNext /\ KeyNext' = KeyNext /\ VelNext' = VelNext
  BY <1>1 DEF CodeNext, KeyNext, VelNext, TakesStatus, TakesKey, TakesVel
<1>4. Reporting' <=> Reporting
  BY <1>1 DEF Reporting, TakesVel
<1>5. PhaseInv' <=> PhaseInv
  BY <1>1 DEF PhaseInv, C4
<1> QED
  BY <1>2, <1>3, <1>4, <1>5

LEMMA StartMessageStep ==
  ASSUME Inv, StartMessage
  PROVE  Inv'
<1>1. /\ pos = "none" /\ msg' \in Message /\ running' = msg'.status
      /\ pos' = "status" \/ (pos' = "data1" /\ msg'.status = running)
      /\ messages < MaxMessages /\ messages' = messages + 1
      /\ UNCHANGED <<fsm, uart>> /\ faults' = faults /\ presses' = presses
      /\ since' = since /\ owedNote' = owedNote
  BY DEF StartMessage
<1>2. /\ Target' = Target /\ CodeNext' = CodeNext
      /\ KeyNext' = KeyNext /\ VelNext' = VelNext
      /\ Reporting' <=> Reporting
      /\ PhaseInv' <=> PhaseInv
  BY <1>1, SameLook
<1>3. DecoderTypeOK'
  <2>1. running' \in Statuses
    BY <1>1, MessageBytes
  <2>2. messages' \in 0 .. MaxMessages
    BY <1>1, DecoderAssumption DEF Inv, DecoderTypeOK
  <2> QED
    BY <1>1, <2>1, <2>2 DEF Inv, DecoderTypeOK, fsm, uart
<1>4. PhaseInv'
  BY <1>2 DEF Inv
<1>5. SenderInv'
  BY <1>1 DEF SenderInv
<1>6. /\ NoteByte(msg'.status) <=> IsNote(msg)'
      /\ IsShort(msg)' <=> msg'.status \div 32 = 6
  BY DEF NoteByte, IsNote, IsShort
<1>7. since = 3 => StepThree'
  BY <1>1, <1>2, <1>6 DEF Inv, SyncInv, StepThree
<1>8. since = 2 => StepTwo'
  BY <1>1, <1>2, <1>6 DEF Inv, SyncInv, StepTwo
<1>9. since = 1 => StepOne'
  BY <1>1, <1>2 DEF Inv, SyncInv, StepOne
<1>10. OwedInv'
  BY <1>1, <1>2 DEF Inv, OwedInv, IsNote
<1> QED
  BY <1>1, <1>3, <1>4, <1>5, <1>7, <1>8, <1>9, <1>10 DEF Inv, SyncInv

LEMMA TickStep ==
  ASSUME Inv, Tick
  PROVE  Inv'
<1>1. /\ DecoderEdge /\ ready2' = 0 /\ gap' = IF gap < MinGap THEN gap + 1 ELSE gap
      /\ owedNote' = IF n_on \/ n_off THEN NoMessage ELSE owedNote
      /\ code2' = code2 /\ msg' = msg /\ pos' = pos /\ running' = running
      /\ messages' = messages /\ faults' = faults /\ presses' = presses
      /\ since' = since
  BY DEF Tick, sender
<1>2. /\ Target' = Target
      /\ CodeNext' = CodeNext /\ KeyNext' = KeyNext /\ VelNext' = VelNext
      /\ PhaseInv'
      /\ Reporting' <=> Reporting /\ ~(n_on \/ n_off)
  BY TickLook DEF Inv
<1>3. DecoderTypeOK'
  <2>1. gap' \in 0 .. MinGap
    BY <1>1, DecoderAssumption DEF Inv, DecoderTypeOK
  <2>2. /\ ep2' \in DecoderStates /\ code_reg' \in 0 .. 15
        /\ key' \in 0 .. 127 /\ vel' \in 0 .. 127
    BY <1>1, LoadTypes DEF Inv
  <2> QED
    BY <1>1, <2>1, <2>2 DEF Inv, DecoderTypeOK
<1>4. SenderInv'
  BY <1>1 DEF Inv, SenderInv, IsShort
<1>5. SyncInv'
  <2>1. /\ IsNote(msg)' <=> IsNote(msg)
        /\ IsShort(msg)' <=> IsShort(msg)
    BY <1>1 DEF IsNote, IsShort
  <2>2. since = 3 => StepThree'
    BY <1>1, <1>2, <2>1 DEF Inv, SyncInv, StepThree
  <2>3. since = 2 => StepTwo'
    BY <1>1, <1>2, <2>1 DEF Inv, SyncInv, StepTwo
  <2>4. since = 1 => StepOne'
    BY <1>1, <1>2 DEF Inv, SyncInv, StepOne
  <2> QED
    BY <1>1, <2>2, <2>3, <2>4 DEF SyncInv
<1>6. OwedInv'
  BY <1>1, <1>2 DEF Inv, OwedInv, IsNote
<1> QED
  BY <1>2, <1>3, <1>4, <1>5, <1>6 DEF Inv

(* The decoder is in step, or on its way, after a byte received as sent.   *)
LEMMA ByteReadyStep ==
  ASSUME Inv, ByteReady
  PROVE  Inv'
<1> DEFINE b == ByteAt(msg, pos)
<1>1. /\ Sent /\ Arrives(b) /\ faults' = faults
      /\ since' = IF pos = "status" /\ ~IsShort(msg) /\ since < 3
                  THEN since + 1 ELSE since
      /\ owedNote' = IF Complete THEN msg
                     ELSE IF n_on \/ n_off THEN NoMessage ELSE owedNote
  BY DEF ByteReady, InStep
<1>2. pos \in {"status", "data1", "data2"} /\ msg \in Message
      /\ msg.status = running
  BY <1>1 DEF Inv, Sent, DecoderTypeOK, SenderInv
<1>3. /\ msg.status \in 128 .. 239 /\ msg \in Message /\ msg # NoMessage
      /\ msg.data1 \in 0 .. 127 /\ msg.data2 \in 0 .. 127
  BY <1>2, MessageBytes
<1>4. /\ pos = "status" => b = msg.status
      /\ pos = "data1" => b = msg.data1
      /\ pos = "data2" => b = msg.data2
  BY AfterFacts
<1>5. b \in 0 .. 255 /\ (b >= 128 <=> pos = "status")
  BY <1>2, <1>3, <1>4
<1> HIDE DEF b
<1>6. UNCHANGED <<msg, running, messages, presses>>
  BY <1>1 DEF Arrives
<1>7. /\ SenderInv' /\ pos' \in {"none", "data1", "data2"}
      /\ pos = "status" => pos' = "data1"
      /\ pos = "data1" => pos' = IF IsShort(msg) THEN "none" ELSE "data2"
      /\ pos = "data2" => pos' = "none" /\ ~IsShort(msg)
  BY <1>1, <1>6, SentSender DEF Inv, SenderInv
<1>8. /\ Target = "e0" => Target' = First(b)
      /\ Target = "e2" => Target' = "e4"
      /\ Target = "e4" => Target' = "e9"
      /\ Target = "e9" => Target' = Again(b)
      /\ CodeNext' = IF Target = "e0" \/ (Target = "e9" /\ b >= 128)
                     THEN b \div 16 ELSE CodeNext
      /\ KeyNext' = IF Target = "e2" \/ (Target = "e9" /\ b < 128)
                    THEN b % 128 ELSE KeyNext
      /\ VelNext' = IF Target = "e4" THEN b % 128 ELSE VelNext
      /\ PhaseInv'
      /\ Reporting' <=> Target = "e4"
      /\ Reporting => n_on \/ n_off
      /\ n_on \/ n_off => Target = "e9"
  BY <1>1, <1>5, ArriveLook DEF Inv
<1>9. /\ b < 128 => b % 128 = b /\ First(b) = "e0" /\ Again(b) = "e4"
      /\ b >= 128 => Again(b) = First(b)
      /\ First(b) = IF NoteByte(b) THEN "e2" ELSE "e0"
  BY <1>5, ByteFacts DEF First, Again, NoteByte
<1>10. /\ IsNote(msg)' <=> IsNote(msg)
       /\ IsShort(msg)' <=> IsShort(msg)
       /\ IsNote(msg) <=> NoteByte(msg.status)
       /\ IsShort(msg) <=> running \div 32 = 6
       /\ IsNote(msg) => ~IsShort(msg)
  BY <1>2, <1>6 DEF IsNote, IsShort, NoteByte
<1>11. Target \in {"e0", "e2", "e4", "e9"}
  BY TargetType DEF Inv
<1>12. since \in 0 .. 3
  BY DEF Inv, DecoderTypeOK, InStep
<1>13. Complete <=> pos = "data2" /\ since = 3 /\ IsNote(msg)
  BY <1>2, <1>7, <1>10 DEF Complete, LastByte, InStep
<1>14. Complete => Target = "e4" /\ CodeNext = msg.status \div 16
                   /\ KeyNext = msg.data1
  BY <1>13 DEF Inv, SyncInv, StepThree
<1>15. DecoderTypeOK'
  <2>1. since' \in 0 .. 3 /\ pos' \in {"none", "status", "data1", "data2"}
    BY <1>1, <1>7, <1>12
  <2>2. owedNote' \in Message \cup {NoMessage}
    BY <1>1, <1>2 DEF Inv, DecoderTypeOK
  <2> QED
    BY <1>1, <1>5, <1>6, <2>1, <2>2, ArrivesTypes DEF Inv, DecoderTypeOK, InStep
<1>16. since' = 3 => StepThree'
  <2>1. CASE pos = "status" /\ since' = 3
    <3>1. Target \in {"e0", "e9"}
      BY <1>1, <1>12, <2>1 DEF Inv, SyncInv, StepThree, StepTwo
    <3>2. Target' = First(b) /\ CodeNext' = b \div 16 /\ ~Reporting'
      BY <1>5, <1>8, <1>9, <2>1, <3>1
    <3> QED
      BY <1>4, <1>6, <1>7, <1>9, <1>10, <2>1, <3>2 DEF StepThree
  <2>2. CASE pos = "data1" /\ since' = 3
    <3>1. since = 3
      BY <1>1, <2>2
    <3>2. CASE IsNote(msg)
      <4>1. Target \in {"e2", "e9"} /\ CodeNext = msg.status \div 16
        BY <2>2, <3>1, <3>2 DEF Inv, SyncInv, StepThree
      <4>2. /\ Target' = "e4" /\ CodeNext' = CodeNext /\ ~Reporting'
            /\ KeyNext' = msg.data1
        BY <1>3, <1>4, <1>8, <1>9, <2>2, <4>1
      <4> QED
        BY <1>6, <1>7, <1>10, <2>2, <3>2, <4>1, <4>2 DEF StepThree
    <3>3. CASE ~IsNote(msg)
      <4>1. Target = "e0"
        BY <2>2, <3>1, <3>3 DEF Inv, SyncInv, StepThree
      <4>2. Target' = "e0" /\ ~Reporting'
        BY <1>3, <1>4, <1>8, <1>9, <2>2, <4>1
      <4> QED
        BY <1>2, <1>6, <1>7, <1>10, <2>2, <3>3, <4>2 DEF StepThree
    <3> QED
      BY <3>2, <3>3
  <2>3. CASE pos = "data2" /\ since' = 3
    <3>1. since = 3
      BY <1>1, <2>3
    <3>2. CASE IsNote(msg)
      <4>1. Complete /\ owedNote' = msg
        BY <1>1, <1>13, <2>3, <3>1, <3>2
      <4>2. Target' = "e9" /\ CodeNext' = running \div 16
        BY <1>2, <1>8, <1>14, <4>1
      <4> QED
        BY <1>2, <1>3, <1>6, <1>7, <1>10, <2>3, <3>2, <4>1, <4>2 DEF StepThree
    <3>3. CASE ~IsNote(msg)
      <4>1. Target = "e0"
        BY <2>3, <3>1, <3>3 DEF Inv, SyncInv, StepThree
      <4>2. Target' = "e0" /\ ~Reporting'
        BY <1>3, <1>4, <1>8, <1>9, <2>3, <4>1
      <4> QED
        BY <1>2, <1>6, <1>7, <1>10, <2>3, <3>3, <4>2 DEF StepThree
    <3> QED
      BY <3>2, <3>3
  <2> QED
    BY <1>2, <2>1, <2>2, <2>3
<1>17. since' = 2 => StepTwo'
  <2>1. CASE pos = "status" /\ since' = 2
    <3>1. CASE IsShort(msg)
      <4>1. Target \in {"e0", "e9"} /\ since = 2
        BY <1>1, <2>1, <3>1 DEF Inv, SyncInv, StepTwo
      <4>2. Target' = "e0"
        BY <1>4, <1>5, <1>8, <1>9, <1>10, <2>1, <3>1, <4>1
      <4> QED
        BY <1>7, <2>1, <4>2 DEF StepTwo
    <3>2. CASE ~IsShort(msg)
      <4>1. since = 1
        BY <1>1, <1>12, <2>1, <3>2
      <4>2. Target # "e2"
        BY <2>1, <4>1 DEF Inv, SyncInv, StepOne
      <4>3. Target' \in {"e0", "e2", "e9"}
        BY <1>5, <1>8, <1>9, <1>11, <2>1, <4>2
      <4> QED
        BY <1>7, <1>10, <2>1, <3>2, <4>3 DEF StepTwo
    <3> QED
      BY <3>1, <3>2
  <2>2. CASE pos = "data1" /\ since' = 2
    <3>1. since = 2
      BY <1>1, <2>2
    <3>2. CASE IsShort(msg)
      <4>1. Target' = "e0"
        BY <1>3, <1>4, <1>8, <1>9, <2>2, <3>1, <3>2 DEF Inv, SyncInv, StepTwo
      <4> QED
        BY <1>7, <2>2, <3>2, <4>1 DEF StepTwo
    <3>3. CASE ~IsShort(msg)
      <4>1. Target \in {"e0", "e2", "e9"}
        BY <2>2, <3>1 DEF Inv, SyncInv, StepTwo
      <4>2. Target' \in {"e0", "e4"}
        BY <1>3, <1>4, <1>8, <1>9, <2>2, <4>1
      <4> QED
        BY <1>7, <2>2, <3>3, <4>2 DEF StepTwo
    <3> QED
      BY <3>2, <3>3
  <2>3. CASE pos = "data2" /\ since' = 2
    <3>1. Target \in {"e0", "e4"}
      BY <1>1, <2>3 DEF Inv, SyncInv, StepTwo
    <3>2. Target' \in {"e0", "e9"}
      BY <1>3, <1>4, <1>8, <1>9, <2>3, <3>1
    <3>3. ~(running' \div 32 = 6)
      BY <1>6, <1>7, <1>10, <2>3
    <3> QED
      BY <1>7, <2>3, <3>2, <3>3 DEF StepTwo
  <2> QED
    BY <1>2, <2>1, <2>2, <2>3
<1>18. since' = 1 => StepOne'
  BY <1>2, <1>5, <1>7, <1>8, <1>9, <1>11 DEF StepOne
<1>19. OwedInv'
  <2>1. CASE Complete
    BY <1>1, <1>3, <1>4, <1>8, <1>9, <1>10, <1>13, <1>14, <2>1 DEF OwedInv
  <2>2. CASE ~Complete
    <3>1. owedNote' = NoMessage
      BY <1>1, <1>8, <2>2 DEF Inv, OwedInv
    <3> QED
      BY <3>1 DEF OwedInv
  <2> QED
    BY <2>1, <2>2
<1> QED
  BY <1>7, <1>8, <1>15, <1>16, <1>17, <1>18, <1>19 DEF Inv, SyncInv

LEMMA ByteChangedStep ==
  ASSUME Inv, ByteChanged
  PROVE  Inv'
<1>1. /\ faults < MaxFaults /\ faults' = faults + 1 /\ since' = 0
      /\ Sent \/ pos' = pos
      /\ owedNote' = IF n_on \/ n_off THEN NoMessage ELSE owedNote
  BY DEF ByteChanged, Fault
<1>2. PICK b \in Statuses \cup Data : Arrives(b)
  BY DEF ByteChanged
<1>3. b \in 0 .. 255
  <2>1. /\ \A s \in Statuses : s \in 128 .. 239
        /\ \A d \in Data : d \in 0 .. 127
    BY DecoderAssumption
  <2> QED
    BY <1>2, <2>1
<1>4. PhaseInv' /\ (Reporting => n_on \/ n_off)
  BY <1>2, <1>3, ArriveLook DEF Inv
<1>5. UNCHANGED <<msg, running, messages, presses>>
  BY <1>2 DEF Arrives
<1>6. SenderInv' /\ pos' \in {"none", "status", "data1", "data2"}
  <2>1. CASE Sent
    BY <1>5, <2>1, SentSender DEF Inv
  <2>2. CASE pos' = pos
    BY <1>5, <2>2 DEF Inv, SenderInv, IsShort, DecoderTypeOK
  <2> QED
    BY <1>1, <2>1, <2>2
<1>7. owedNote' = NoMessage
  BY <1>1, <1>4 DEF Inv, OwedInv
<1>8. DecoderTypeOK'
  <2>1. faults' \in 0 .. MaxFaults /\ since' \in 0 .. 3
    BY <1>1, DecoderAssumption DEF Inv, DecoderTypeOK
  <2> QED
    BY <1>2, <1>3, <1>5, <1>6, <1>7, <2>1, ArrivesTypes DEF Inv, DecoderTypeOK, InStep
<1> QED
  BY <1>1, <1>4, <1>6, <1>7, <1>8 DEF Inv, SyncInv, OwedInv

LEMMA ByteLostStep ==
  ASSUME Inv, ByteLost
  PROVE  Inv'
<1>1. /\ faults < MaxFaults /\ faults' = faults + 1 /\ since' = 0 /\ Sent
      /\ UNCHANGED <<fsm, uart>> /\ msg' = msg /\ running' = running
      /\ messages' = messages /\ presses' = presses /\ owedNote' = owedNote
  BY DEF ByteLost, Fault
<1>2. /\ CodeNext' = CodeNext
      /\ KeyNext' = KeyNext /\ VelNext' = VelNext
      /\ Reporting' <=> Reporting
      /\ PhaseInv' <=> PhaseInv
  BY <1>1, SameLook
<1>3. SenderInv' /\ pos' \in {"none", "data1", "data2"}
  BY <1>1, SentSender DEF Inv
<1>4. DecoderTypeOK'
  <2>1. faults' \in 0 .. MaxFaults /\ since' \in 0 .. 3
    BY <1>1, DecoderAssumption DEF Inv, DecoderTypeOK
  <2> QED
    BY <1>1, <1>3, <2>1 DEF Inv, DecoderTypeOK, InStep, fsm, uart
<1>5. OwedInv'
  BY <1>1, <1>2 DEF Inv, OwedInv, IsNote
<1> QED
  BY <1>1, <1>2, <1>3, <1>4, <1>5 DEF Inv, SyncInv

LEMMA ResetStep ==
  ASSUME Inv, DecoderReset
  PROVE  Inv'
<1>1. /\ presses < MaxPresses /\ presses' = presses + 1
      /\ ep2' = "e0" /\ key' = 0 /\ vel' = 0 /\ code_reg' = code_reg
      /\ ready2' = 0 /\ code2' = 0 /\ gap' = gap
      /\ since' = 2 /\ owedNote' = NoMessage /\ faults' = faults
      /\ msg' = msg /\ pos' = pos /\ running' = running /\ messages' = messages
  BY DEF DecoderReset, InStep, sender
<1>2. Target' = "e0"
  BY <1>1, TargetTableNext
<1>3. DecoderTypeOK'
  <2>1. presses' \in 0 .. MaxPresses /\ since' \in 0 .. 3
    BY <1>1, DecoderAssumption DEF Inv, DecoderTypeOK
  <2> QED
    BY <1>1, <2>1 DEF Inv, DecoderTypeOK, DecoderStates, InStep
<1>4. PhaseInv' /\ OwedInv'
  BY <1>1 DEF PhaseInv, OwedInv
<1>5. SenderInv'
  BY <1>1 DEF Inv, SenderInv, IsShort
<1>6. SyncInv'
  BY <1>1, <1>2 DEF SyncInv, StepTwo
<1> QED
  BY <1>3, <1>4, <1>5, <1>6 DEF Inv

LEMMA NextInv ==
  ASSUME Inv, [DecoderNext]_decoderVars
  PROVE  Inv'
<1>1. CASE DecoderNext
  BY <1>1, StartMessageStep, TickStep, ByteReadyStep, ByteChangedStep,
     ByteLostStep, ResetStep DEF DecoderNext
<1>2. CASE UNCHANGED decoderVars
  <2>1. /\ UNCHANGED <<fsm, uart>> /\ msg' = msg /\ pos' = pos
        /\ running' = running /\ messages' = messages /\ faults' = faults
        /\ presses' = presses /\ since' = since /\ owedNote' = owedNote
    BY <1>2 DEF decoderVars, sender
  <2>2. /\ Target' = Target /\ CodeNext' = CodeNext
        /\ KeyNext' = KeyNext /\ VelNext' = VelNext
        /\ Reporting' <=> Reporting
        /\ PhaseInv' <=> PhaseInv
    BY <2>1, SameLook
  <2>3. DecoderTypeOK'
    BY <2>1 DEF Inv, DecoderTypeOK, fsm, uart
  <2>4. SenderInv'
    BY <2>1 DEF Inv, SenderInv, IsShort
  <2>5. SyncInv'
    BY <2>1, <2>2 DEF Inv, SyncInv, StepThree, StepTwo, StepOne, IsNote, IsShort
  <2>6. OwedInv'
    BY <2>1, <2>2 DEF Inv, OwedInv, IsNote
  <2> QED
    BY <2>2, <2>3, <2>4, <2>5, <2>6 DEF Inv
<1> QED
  BY <1>1, <1>2

-----------------------------------------------------------------------------
(* The invariant holds in every reachable state; the variables keep their  *)
(* types.                                                                  *)
THEOREM DecoderInvariant == DecoderSpec => []Inv
<1>1. DecoderInit => Inv
  BY InitInv
<1>2. Inv /\ [DecoderNext]_decoderVars => Inv'
  BY NextInv
<1> QED
  BY <1>1, <1>2, PTL DEF DecoderSpec

THEOREM DecoderTyped == DecoderSpec => []DecoderTypeOK
<1>1. Inv => DecoderTypeOK
  BY DEF Inv
<1> QED
  BY <1>1, DecoderInvariant, PTL

(* A note message received whole is reported with its kind, key and        *)
(* velocity (n_on, n_off, key and velocity of modulo2).                    *)
THEOREM DecoderReports == DecoderSpec => []PulseReportsNote
<1>1. Inv => PulseReportsNote
  <2> SUFFICES ASSUME Inv, n_on \/ n_off, owedNote # NoMessage
               PROVE  Reports(owedNote)
    BY DEF PulseReportsNote
  <2>1. ep2 \in {"e7", "e8"} /\ ready2 = 0
    BY DEF n_on, n_off, Inv, PhaseInv, DecoderTypeOK
  <2>2. /\ code_reg = owedNote.status \div 16
        /\ key = owedNote.data1 /\ vel = owedNote.data2
    BY <2>1 DEF Inv, OwedInv, CodeNext, KeyNext, VelNext, TakesStatus,
                TakesKey, TakesVel
  <2>3. n_on <=> C4 = 1
    BY <2>1 DEF n_on, Inv, PhaseInv
  <2> QED
    BY <2>2, <2>3 DEF Reports, C4
<1> QED
  BY <1>1, DecoderInvariant, PTL

(* In step, the decoder reports nothing but the notes received whole, and  *)
(* it is in step again after the status byte of the third message of two   *)
(* data bytes that follows a fault (ByteReady counts them in since).       *)
THEOREM DecoderReportsNoMore == DecoderSpec => []NoSpuriousPulse
<1>1. Inv => NoSpuriousPulse
  BY DEF Inv, SyncInv, StepThree, NoSpuriousPulse, InStep, Reporting, n_on, n_off
<1> QED
  BY <1>1, DecoderInvariant, PTL

(* A note is reported before the next one is complete: the registers key   *)
(* and vel are never loaded with a second note while the first waits.      *)
THEOREM DecoderKeepsUp == DecoderSpec => NoOverrun
<1>1. Inv /\ [DecoderNext]_decoderVars
        => [owedNote' # NoMessage => owedNote \in {NoMessage, owedNote'}]_decoderVars
  <2> SUFFICES ASSUME Inv, DecoderNext, owedNote # NoMessage, owedNote' # NoMessage
               PROVE  owedNote' = owedNote
    OBVIOUS
  <2>1. CASE ByteReady
    <3>1. Sent /\ SenderInv /\ DecoderTypeOK /\ Arrives(ByteAt(msg, pos))
      BY <2>1 DEF ByteReady, Inv
    <3>2. pos \in {"status", "data1", "data2"} /\ msg \in Message
      BY <3>1 DEF Sent, DecoderTypeOK, SenderInv
    <3>3. ByteAt(msg, pos) \in 0 .. 255
      BY <3>2, AfterFacts, MessageBytes
    <3>4. /\ Reporting => n_on \/ n_off
          /\ n_on \/ n_off => Target = "e9"
      BY <3>1, <3>3, ArriveLook DEF Inv
    <3>5. Target = "e9"
      BY <3>4 DEF Inv, OwedInv
    <3>6. ~Complete
      <4>1. Complete => pos = "data2" /\ since = 3 /\ IsNote(msg)
        BY <3>2, MessageKinds DEF Complete, LastByte, InStep
      <4> QED
        BY <3>5, <4>1 DEF Inv, SyncInv, StepThree
    <3> QED
      BY <2>1, <3>6 DEF ByteReady
  <2>2. CASE ~ByteReady
    BY <2>2 DEF DecoderNext, StartMessage, Tick, ByteChanged, ByteLost, DecoderReset
  <2> QED
    BY <2>1, <2>2
<1> QED
  BY <1>1, DecoderInvariant, PTL DEF DecoderSpec, NoOverrun
=============================================================================
