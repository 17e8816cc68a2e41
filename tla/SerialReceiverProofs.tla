------------------------ MODULE SerialReceiverProofs ------------------------
(***************************************************************************)
(* Proofs about SerialReceiver, for any bit time and periods within the    *)
(* tolerance, any bytes, any number of pulses and resets.                  *)
(*                                                                         *)
(* The argument compares two clocks: the age of the reception, which can   *)
(* be read off the receiver's state and counters, and the age of the frame *)
(* on the line.  They advance together.                                    *)
(***************************************************************************)
EXTENDS SerialReceiver, TLAPS

(* Cycles since the receiver saw the line fall.                            *)
Age ==
  CASE ep = "e0" -> 0
    [] ep = "e1" -> 1
    [] ep = "e2" -> PDH + 2 - value_pd
    [] ep = "e3" -> PDH + 3
    [] ep = "e4" -> PDH + 4 + PD - value_pd + (8 - value_bt) * (PD + 3)
    [] ep = "e5" -> PDH + 5 + PD + (8 - value_bt) * (PD + 3)
    [] ep = "e6" -> PDH + 3 + (8 - value_bt) * (PD + 3)
    [] ep = "e7" -> LastSample + 1
    [] ep = "e8" -> LastSample + 2

(* Cycles since the frame on the line began.                               *)
LineAge == bit * T + phase

(* The bits of the frame, as they should be sampled.                       *)
FrameBit(k) == IF k = 0 THEN 0 ELSE IF k = 9 THEN 1 ELSE byte[k]

(* The counters stay within what they are loaded with.                     *)
CounterInv ==
  /\ ep = "e2" => value_pd <= PDH
  /\ ep = "e4" => value_pd <= PD
  /\ ep \in {"e4", "e5"} => value_bt <= 8
  /\ ep = "e6" => value_bt <= 7

(* A receiver at work is at least as old as the quiet of the line.         *)
QuietInv ==
  /\ quiet > 0 => bit = Idle /\ pulse = 0
  /\ quiet <= Age \/ ep = "e0"

(* The two clocks agree, but for the head start that a pulse before the    *)
(* frame may give the receiver.                                            *)
SyncInv ==
  /\ pulse > 0 => T <= PD + 3
  /\ clean = 1 /\ bit = Idle =>
       /\ ep \in {"e0", "e1", "e2"}
       /\ ep # "e0" => T <= PD + 3
       /\ pulse > 0 => Age + pulse <= PDH + 2
  /\ clean = 1 /\ bit # Idle =>
       /\ pulse > 0 => pulse + LineAge <= PDH + 2
       /\ ep = "e0" => LineAge = 0 \/ bit = 9
       /\ ep # "e0" => /\ LineAge <= Age /\ Age <= LineAge + PDH + 2
                       /\ Age # LineAge => T <= PD + 3

(* The register holds the first bits of the frame.                         *)
ContentInv ==
  clean = 1 /\ bit # Idle =>
    /\ ep \in {"e4", "e5", "e6"} =>
         \A i \in 0 .. 9 : i > value_bt => code_aux[i] = FrameBit(i - 1 - value_bt)
    /\ ep \in {"e7", "e8"} => \A i \in 0 .. 9 : code_aux[i] = FrameBit(i)

(* A byte is owed until it is reported.                                    *)
OwedInv ==
  /\ clean = 0 => owed = 0
  /\ clean = 1 =>
       (owed = 1 <=> bit # Idle /\ (ep \notin {"e0", "e8"} \/ (ep = "e0" /\ bit = 0)))

Inv == TypeOK /\ CounterInv /\ QuietInv /\ SyncInv /\ ContentInv /\ OwedInv

-----------------------------------------------------------------------------
(* The receiver.                                                           *)

LEMMA LineLevel == TypeOK => midi_rx \in {0, 1}
BY SerialReceiverAssumption, SMT DEF TypeOK, midi_rx, Idle

(* What a clock edge does in each state; no counter wraps.                 *)
LEMMA EdgeCases ==
  ASSUME TypeOK, CounterInv, Edge
  PROVE  /\ ep = "e0" => ep' = IF midi_rx = 0 THEN "e1" ELSE "e0"
         /\ ep = "e1" => ep' = "e2" /\ value_pd' = PDH
         /\ ep = "e2" => \/ value_pd > 0 /\ ep' = "e2" /\ value_pd' = value_pd - 1
                         \/ value_pd = 0 /\ ep' = IF midi_rx = 0 THEN "e3" ELSE "e0"
         /\ ep = "e3" => ep' = "e4" /\ value_pd' = PD /\ value_bt' = 8
         /\ ep = "e4" => /\ value_bt' = value_bt
                         /\ \/ value_pd > 0 /\ ep' = "e4" /\ value_pd' = value_pd - 1
                            \/ value_pd = 0 /\ ep' = "e5"
         /\ ep = "e5" => \/ value_bt = 0 /\ ep' = "e7"
                         \/ value_bt > 0 /\ ep' = "e6" /\ value_bt' = value_bt - 1
         /\ ep = "e6" => ep' = "e4" /\ value_pd' = PD /\ value_bt' = value_bt
         /\ ep = "e7" => ep' = IF code_aux[9] = 1 THEN "e8" ELSE "e0"
         /\ ep = "e8" => ep' = "e0"
<1>1. value_pd \in 0 .. 4095 /\ value_bt \in 0 .. 15 /\ ep \in States
  BY DEF TypeOK
<1>2. ep' = es
  BY DEF Edge
<1>3. Period /\ BitCount
  BY DEF Edge
<1>5. CASE ep \in {"e0", "e1"}
  BY <1>2, <1>3, <1>5, SMT DEF es, Period
<1>6. CASE ep = "e2"
  <2>1. value_pd' = Down(value_pd, 4095)
    BY <1>3, <1>6 DEF Period
  <2>2. CASE value_pd = 0
    BY <1>2, <1>6, <2>2, SMT DEF es, fin_ct_pd
  <2>3. CASE value_pd > 0
    BY <1>1, <1>2, <1>6, <2>1, <2>3, SMT DEF Down, es, fin_ct_pd
  <2>4. value_pd = 0 \/ value_pd > 0
    BY <1>1, SMT
  <2> QED
    BY <2>2, <2>3, <2>4
<1>7. CASE ep = "e3"
  BY <1>2, <1>3, <1>7, SMT DEF es, Period, BitCount
<1>8. CASE ep = "e4"
  <2>1. value_pd' = Down(value_pd, 4095) /\ value_bt' = value_bt
    BY <1>3, <1>8 DEF Period, BitCount
  <2>2. CASE value_pd = 0
    BY <1>2, <1>8, <2>1, <2>2, SMT DEF es, fin_ct_pd
  <2>3. CASE value_pd > 0
    BY <1>1, <1>2, <1>8, <2>1, <2>3, SMT DEF Down, es, fin_ct_pd
  <2>4. value_pd = 0 \/ value_pd > 0
    BY <1>1, SMT
  <2> QED
    BY <2>2, <2>3, <2>4
<1>9. CASE ep = "e5"
  <2>1. value_bt \in 0 .. 8
    BY <1>1, <1>9, SMT DEF CounterInv
  <2> QED
    BY <2>1, <1>2, <1>3, <1>9, SMT DEF Down, es, BitCount, fin_ct_bt
<1>10. CASE ep = "e6"
  BY <1>2, <1>3, <1>10, SMT DEF es, Period, BitCount
<1>11. CASE ep \in {"e7", "e8"}
  BY <1>1, <1>2, <1>11, SMT DEF es, stop_bit
<1> QED
  BY <1>1, <1>5, <1>6, <1>7, <1>8, <1>9, <1>10, <1>11, SMT DEF States

(* The receiver keeps its types and its counters their ranges.             *)
LEMMA EdgeType ==
  ASSUME TypeOK, CounterInv, Edge
  PROVE  /\ ep' \in States /\ value_pd' \in 0 .. 4095 /\ value_bt' \in 0 .. 15
         /\ code_aux' \in [0 .. 9 -> {0, 1}]
         /\ CounterInv'
<1>1. value_pd \in 0 .. 4095 /\ value_bt \in 0 .. 15 /\ ep \in States
  BY DEF TypeOK
<1>2. ep' \in States
  BY <1>1, EdgeCases, SMT DEF States
<1>3. value_pd' \in 0 .. 4095
  BY <1>1, SerialReceiverAssumption, SMT DEF Edge, Period, Down
<1>4. value_bt' \in 0 .. 15
  BY <1>1, SMT DEF Edge, BitCount, Down
<1>5. code_aux' \in [0 .. 9 -> {0, 1}]
  BY LineLevel, SMT DEF TypeOK, Edge, Shift
<1>6. CounterInv'
  BY <1>1, EdgeCases, SerialReceiverAssumption, SMT DEF States, CounterInv
<1> QED
  BY <1>2, <1>3, <1>4, <1>5, <1>6

(* The age, state by state.                                                *)
AgeCases ==
  /\ ep = "e0" => Age = 0
  /\ ep = "e1" => Age = 1
  /\ ep = "e2" => Age = PDH + 2 - value_pd
  /\ ep = "e3" => Age = PDH + 3
  /\ ep = "e4" => Age = PDH + 4 + PD - value_pd + (8 - value_bt) * (PD + 3)
  /\ ep = "e5" => Age = PDH + 5 + PD + (8 - value_bt) * (PD + 3)
  /\ ep = "e6" => Age = PDH + 3 + (8 - value_bt) * (PD + 3)
  /\ ep = "e7" => Age = LastSample + 1
  /\ ep = "e8" => Age = LastSample + 2

LEMMA AgeTable == AgeCases /\ AgeCases'
<1>1. AgeCases
  BY SMT DEF AgeCases, Age
<1> QED
  BY <1>1, PTL

(* While the receiver is at work its age is in range and grows with time.  *)
AgeBounds == Age \in Nat /\ (ep # "e0" => 1 <= Age /\ Age < Reception)

LEMMA AgeRange == TypeOK /\ CounterInv => AgeBounds
<1> SUFFICES ASSUME TypeOK, CounterInv PROVE AgeBounds
  OBVIOUS
<1> USE DEF AgeBounds
<1>1. value_pd \in Nat /\ value_bt \in 0 .. 15 /\ ep \in States
  BY SMT DEF TypeOK
<1>2. PD \in Nat /\ PDH \in Nat /\ Reception = PDH + 9 * PD + 32
  BY SerialReceiverAssumption, SMT DEF Reception, LastSample
<1>3. CASE ep \in {"e0", "e1", "e3"}
  BY <1>2, <1>3, AgeTable, SMT DEF AgeCases
<1>4. CASE ep = "e2"
  BY <1>1, <1>2, <1>4, AgeTable, SMT DEF AgeCases, CounterInv
<1>5. CASE ep \in {"e7", "e8"}
  BY <1>2, <1>5, AgeTable, SMT DEF AgeCases, LastSample
<1>6. CASE ep \in {"e4", "e5", "e6"}
  <2>1. (8 - value_bt) * (PD + 3) \in Nat /\ (8 - value_bt) * (PD + 3) <= 8 * (PD + 3)
    BY <1>1, <1>2, <1>6, SMT DEF CounterInv
  <2>2. ep = "e6" => (8 - value_bt) * (PD + 3) >= PD + 3
    BY <1>1, <1>2, SMT DEF CounterInv
  <2> QED
    BY <1>1, <1>2, <1>6, <2>1, <2>2, AgeTable, SMT DEF AgeCases, CounterInv
<1> QED
  BY <1>1, <1>3, <1>4, <1>5, <1>6, SMT DEF States

LEMMA AgeRangeNext == TypeOK' /\ CounterInv' => AgeBounds'
<1>1. TypeOK /\ CounterInv => AgeBounds
  BY AgeRange
<1> QED
  BY <1>1, PTL

LEMMA AgeStep ==
  ASSUME TypeOK, CounterInv, Edge
  PROVE  Age' = IF ep' = "e0" THEN 0 ELSE Age + 1
<1>1. value_pd \in Nat /\ value_bt \in 0 .. 15 /\ ep \in States
  BY SMT DEF TypeOK
<1>2. PD \in Nat /\ PDH \in Nat
  BY SerialReceiverAssumption, SMT
<1>3. AgeCases /\ AgeCases'
  BY AgeTable
<1>4. CASE ep' = "e0"
  BY <1>3, <1>4 DEF AgeCases
<1>5. CASE ep' # "e0" /\ ep = "e0"
  BY <1>2, <1>3, <1>5, EdgeCases, SMT DEF AgeCases
<1>6. CASE ep' # "e0" /\ ep = "e1"
  BY <1>2, <1>3, <1>6, EdgeCases, SMT DEF AgeCases
<1>7. CASE ep' # "e0" /\ ep = "e2"
  BY <1>1, <1>2, <1>3, <1>7, EdgeCases, SMT DEF AgeCases
<1>8. CASE ep = "e3"
  BY <1>2, <1>3, <1>8, EdgeCases, SMT DEF AgeCases
<1>9. CASE ep = "e4"
  BY <1>1, <1>2, <1>3, <1>9, EdgeCases, SMT DEF AgeCases
<1>10. CASE ep = "e5"
  <2>1. (8 - (value_bt - 1)) * (PD + 3) = (8 - value_bt) * (PD + 3) + PD + 3
    BY <1>1, <1>2, SMT
  <2>2. CASE value_bt = 0
    BY <1>2, <1>3, <1>10, <2>2, EdgeCases, SMT DEF AgeCases, LastSample
  <2>3. CASE value_bt > 0
    BY <1>1, <1>2, <1>3, <1>10, <2>1, <2>3, EdgeCases, SMT DEF AgeCases
  <2> QED
    BY <1>1, <2>2, <2>3, SMT
<1>11. CASE ep = "e6"
  BY <1>1, <1>2, <1>3, <1>11, EdgeCases, SMT DEF AgeCases
<1>12. CASE ep' # "e0" /\ ep \in {"e7", "e8"}
  BY <1>2, <1>3, <1>12, EdgeCases, SMT DEF AgeCases, LastSample
<1> QED
  BY <1>1, <1>4, <1>5, <1>6, <1>7, <1>8, <1>9, <1>10, <1>11, <1>12, SMT DEF States

-----------------------------------------------------------------------------
(* The tolerance.                                                          *)

LEMMA Constants ==
  /\ T \in Nat /\ T > 4 /\ PD \in Nat /\ PDH \in Nat /\ PDH + 3 < T
  /\ MaxPulse \in Nat /\ MaxPulse <= PDH + 2
  /\ LastSample = PDH + 2 + 9 * (PD + 3) /\ Reception = LastSample + 3
  /\ 9 * T <= LastSample /\ Reception <= 10 * T
BY SerialReceiverAssumption, SMT DEF LastSample, Reception

(* The k-th sample after the start bit lies in bit k, also for a receiver  *)
(* that started at most half a bit early, if the keyboard is no slower.    *)
LEMMA Tolerance ==
  ASSUME NEW k \in 1 .. 9
  PROVE  /\ k * T <= PDH + 2 + k * (PD + 3)
         /\ PDH + 2 + k * (PD + 3) < (k + 1) * T
         /\ T <= PD + 3 => k * T <= k * (PD + 3)
<1>1. k = 1 \/ k = 2 \/ k = 3 \/ k = 4 \/ k = 5 \/ k = 6 \/ k = 7 \/ k = 8 \/ k = 9
  BY SMT
<1> QED
  BY <1>1, Constants, SMT

(* A cycle lies in one bit only.                                           *)
LEMMA OneBit ==
  ASSUME NEW b \in 0 .. 9, NEW p \in 0 .. T - 1, NEW k \in 0 .. 9,
         k * T <= b * T + p, b * T + p < (k + 1) * T
  PROVE  b = k
<1>1. T \in Nat /\ b \in Nat /\ k \in Nat /\ p \in Nat /\ p < T
  BY Constants, SMT
<1>2. CASE b < k
  <2>1. (b + 1) * T <= k * T
    BY <1>1, <1>2, SMT
  <2>2. b * T + p < (b + 1) * T
    BY <1>1, SMT
  <2> QED
    BY <1>1, <2>1, <2>2, SMT
<1>3. CASE k < b
  <2>1. (k + 1) * T <= b * T
    BY <1>1, <1>3, SMT
  <2> QED
    BY <1>1, <2>1, SMT
<1> QED
  BY <1>1, <1>2, <1>3, SMT

(* A receiver in step with the line samples each bit while it is there.    *)
LEMMA InStepSamples == TypeOK /\ CounterInv /\ SyncInv => SampleInItsBit
<1> SUFFICES ASSUME TypeOK, CounterInv, SyncInv, clean = 1, ep \in {"e3", "e5"}
             PROVE  /\ ep = "e3" => bit = 0
                    /\ ep = "e5" => bit = 9 - value_bt
  BY DEF SampleInItsBit
<1>1. bit \in 0 .. 9 /\ phase \in 0 .. T - 1 /\ value_bt \in 0 .. 15
  BY SMT DEF TypeOK, SyncInv, Idle
<1>2. LineAge <= Age /\ Age <= LineAge + PDH + 2 /\ (Age # LineAge => T <= PD + 3)
  BY <1>1, SMT DEF SyncInv, Idle
<1>3. LineAge = bit * T + phase /\ bit * T \in Nat
  BY <1>1, Constants, SMT DEF LineAge
<1>4. CASE ep = "e3"
  <2>1. Age < T
    BY <1>4, AgeTable, Constants, SMT DEF AgeCases
  <2>2. 0 * T = 0 /\ (0 + 1) * T = T /\ 0 <= bit * T + phase
    BY <1>1, <1>3, Constants, SMT
  <2>5. bit * T + phase < T
    BY <1>1, <1>2, <1>3, <1>4, <2>1, AgeTable, Constants, SMT DEF AgeCases
  <2>3. bit = 0
    BY <1>1, <2>2, <2>5, OneBit, SMT
  <2> QED
    BY <1>4, <2>3
<1>5. CASE ep = "e5"
  <2> DEFINE k == 9 - value_bt
  <2>1. k \in 1 .. 9
    BY <1>1, <1>5, SMT DEF CounterInv
  <2>2. Age = PDH + 2 + k * (PD + 3)
    BY <1>1, <1>5, AgeTable, Constants, SMT DEF AgeCases
  <2> HIDE DEF k
  <2>3. k * T <= LineAge
    <3>1. CASE Age = LineAge
      BY <2>1, <2>2, <3>1, Tolerance
    <3>2. CASE Age # LineAge
      <4>1. k * T <= k * (PD + 3)
        BY <1>2, <2>1, <3>2, Tolerance
      <4>2. k * (PD + 3) \in Nat /\ k * T \in Nat
        BY <2>1, Constants, SMT
      <4> QED
        BY <1>1, <1>2, <1>3, <2>2, <4>1, <4>2, Constants, SMT
    <3> QED
      BY <3>1, <3>2
  <2>4. LineAge < (k + 1) * T
    <3>1. PDH + 2 + k * (PD + 3) < (k + 1) * T
      BY <2>1, Tolerance
    <3>2. k * (PD + 3) \in Nat /\ (k + 1) * T \in Nat
      BY <2>1, Constants, SMT
    <3> QED
      BY <1>1, <1>2, <1>3, <2>2, <3>1, <3>2, Constants, SMT
  <2>5. bit = k
    BY <1>1, <1>3, <2>1, <2>3, <2>4, OneBit, SMT
  <2> QED
    BY <1>5, <2>5 DEF k
<1> QED
  BY <1>4, <1>5

(* The level of the line is that of the frame's bit.                       *)
LEMMA LineIsFrame ==
  ASSUME TypeOK, SyncInv, clean = 1, bit # Idle
  PROVE  /\ midi_rx = FrameBit(bit)
         /\ pulse > 0 => bit = 0
<1>1. bit \in 0 .. 9 /\ phase \in 0 .. T - 1 /\ pulse \in Nat
  BY Constants, SMT DEF TypeOK, Idle
<1>2. LineAge = bit * T + phase
  BY DEF LineAge
<1>3. ASSUME pulse > 0 PROVE bit = 0
  <2>1. pulse + LineAge <= PDH + 2
    BY <1>3 DEF SyncInv
  <2>2. CASE bit > 0
    <3>1. bit * T >= T /\ bit * T \in Nat
      BY <1>1, <2>2, Constants, SMT
    <3> QED
      BY <1>1, <1>2, <1>3, <2>1, <3>1, Constants, SMT
  <2> QED
    BY <1>1, <2>2, SMT
<1>4. pulse = 0 \/ pulse > 0
  BY <1>1, SMT
<1> QED
  BY <1>1, <1>3, <1>4, SMT DEF midi_rx, FrameBit, Idle

(* On an idle line a pulse is over at the second look.                     *)
LEMMA IdleStep ==
  ASSUME TypeOK, CounterInv, SyncInv, Edge, Fades, clean = 1, bit = Idle
  PROVE  /\ ep' \in {"e0", "e1", "e2"}
         /\ ep' # "e0" => T <= PD + 3
         /\ pulse' > 0 => Age' + pulse' <= PDH + 2
<1>1. /\ ep \in {"e0", "e1", "e2"}
      /\ ep # "e0" => T <= PD + 3
      /\ pulse > 0 => Age + pulse <= PDH + 2 /\ T <= PD + 3
  BY DEF SyncInv
<1>2. pulse \in Nat /\ value_pd \in Nat /\ Age \in Nat
  BY Constants, AgeRange, SMT DEF TypeOK, AgeBounds
<1>3. pulse = 0 => midi_rx = 1
  BY SMT DEF midi_rx, Idle
<1>4. pulse > 0 => midi_rx = 0
  BY SMT DEF midi_rx
<1>5. pulse' = IF pulse > 0 THEN pulse - 1 ELSE 0
  BY DEF Fades
<1>6. Age' = IF ep' = "e0" THEN 0 ELSE Age + 1
  BY AgeStep
<1>7. ep = "e2" /\ value_pd = 0 => pulse = 0
  BY <1>1, <1>2, AgeTable, Constants, SMT DEF AgeCases
<1>8. ep' \in {"e0", "e1", "e2"} /\ (ep' # "e0" => ep # "e0" \/ pulse > 0)
  BY <1>1, <1>2, <1>3, <1>4, <1>7, EdgeCases, SMT
<1>9. pulse' > 0 => Age' + pulse' <= PDH + 2
  BY <1>1, <1>2, <1>5, <1>6, Constants, SMT
<1> QED
  BY <1>1, <1>8, <1>9

(* The last sample is taken in the stop bit, and the receiver waits again  *)
(* before the frame is over.                                               *)
LEMMA LateAges ==
  ASSUME TypeOK, CounterInv, SyncInv, clean = 1, bit # Idle
  PROVE  /\ ep = "e8" => bit = 9
         /\ bit = 9 /\ phase = T - 1 => ep \in {"e0", "e8"}
<1>1. bit \in 0 .. 9 /\ phase \in 0 .. T - 1 /\ value_bt \in 0 .. 15 /\ value_pd \in Nat /\ ep \in States
  BY SMT DEF TypeOK, Idle
<1>2. LineAge = bit * T + phase /\ bit * T \in Nat /\ LineAge \in Nat
  BY <1>1, Constants, SMT DEF LineAge
<1>3. ep # "e0" => /\ LineAge <= Age /\ Age <= LineAge + PDH + 2
                   /\ Age # LineAge => T <= PD + 3
  BY DEF SyncInv
<1>4. ASSUME ep = "e8" PROVE bit = 9
  <2>1. Age = LastSample + 2
    BY <1>4, AgeTable DEF AgeCases
  <2>2. 9 * T <= LineAge
    BY <1>2, <1>3, <1>4, <2>1, Constants, SMT
  <2>3. bit * T + phase < 9 * T \/ bit = 9
    <3>1. CASE bit <= 8
      <4>1. bit * T <= 8 * T
        BY <1>1, <3>1, Constants, SMT
      <4> QED
        BY <1>1, <1>2, <4>1, Constants, SMT
    <3> QED
      BY <1>1, <3>1, SMT
  <2> QED
    BY <1>1, <1>2, <2>2, <2>3, Constants, SMT
<1>5. ASSUME bit = 9, phase = T - 1, ep # "e0" PROVE ep = "e8"
  <2>1. LineAge = 10 * T - 1
    BY <1>2, <1>5, Constants, SMT
  <2>2. Age >= LastSample + 2
    BY <1>2, <1>3, <1>5, <2>1, AgeRange, Constants, SMT DEF AgeBounds
  <2>3. CASE ep \in {"e1", "e3", "e7"}
    BY <2>2, <2>3, AgeTable, Constants, SMT DEF AgeCases
  <2>4. CASE ep = "e2"
    BY <1>1, <2>2, <2>4, AgeTable, Constants, SMT DEF AgeCases
  <2>5. CASE ep \in {"e4", "e5", "e6"}
    <3>1. (8 - value_bt) * (PD + 3) \in Int /\ (8 - value_bt) * (PD + 3) <= 8 * (PD + 3)
      BY <1>1, Constants, SMT
    <3> QED
      BY <1>1, <2>2, <2>5, <3>1, AgeTable, Constants, SMT DEF AgeCases
  <2> QED
    BY <1>1, <1>5, <2>3, <2>4, <2>5, SMT DEF States
<1> QED
  BY <1>4, <1>5

(* A clock edge during a frame.                                            *)
LEMMA FrameStep ==
  ASSUME TypeOK, CounterInv, SyncInv, ContentInv, Edge, clean = 1, bit # Idle
  PROVE  \/ ep = "e0" /\ bit = 0 /\ LineAge = 0 /\ ep' = "e1"
         \/ ep \in {"e0", "e8"} /\ bit = 9 /\ pulse = 0 /\ ep' = "e0"
         \/ ep = "e7" /\ ep' = "e8"
         \/ ep \notin {"e0", "e7", "e8"} /\ ep' \notin {"e0", "e8"}
<1>1. bit \in 0 .. 9 /\ phase \in 0 .. T - 1 /\ value_pd \in Nat /\ pulse \in Nat /\ ep \in States
  BY Constants, SMT DEF TypeOK, Idle
<1>2. midi_rx = FrameBit(bit) /\ (pulse > 0 => bit = 0)
  BY LineIsFrame
<1>3. LineAge = bit * T + phase
  BY DEF LineAge
<1>4. CASE ep = "e0"
  <2>1. LineAge = 0 \/ bit = 9
    BY <1>4 DEF SyncInv
  <2>2. CASE bit = 9
    <3>1. midi_rx = 1
      BY <1>2, <2>2, SMT DEF FrameBit
    <3>2. ep' = "e0"
      BY <1>4, <3>1, EdgeCases, SMT
    <3>3. pulse = 0
      BY <1>1, <1>2, <2>2, SMT
    <3> QED
      BY <1>4, <2>2, <3>2, <3>3
  <2>3. CASE bit # 9
    <3>1. LineAge = 0
      BY <2>1, <2>3
    <3>2. bit = 0
      <4>1. bit > 0 => bit * T >= T /\ bit * T \in Nat
        BY <1>1, Constants, SMT
      <4> QED
        BY <1>1, <1>3, <3>1, <4>1, Constants, SMT
    <3>3. midi_rx = 0
      BY <1>2, <3>2, SMT DEF FrameBit
    <3>4. ep' = "e1"
      BY <1>4, <3>3, EdgeCases, SMT
    <3> QED
      BY <1>4, <3>1, <3>2, <3>4
  <2> QED
    BY <2>2, <2>3
<1>5. CASE ep = "e2"
  <2>1. CASE value_pd = 0
    <3>1. Age = PDH + 2 /\ LineAge <= Age
      BY <1>5, <2>1, AgeTable, Constants, SMT DEF AgeCases, SyncInv
    <3>2. bit = 0
      <4>1. bit > 0 => bit * T >= T /\ bit * T \in Nat
        BY <1>1, Constants, SMT
      <4> QED
        BY <1>1, <1>3, <3>1, <4>1, Constants, SMT
    <3>3. midi_rx = 0
      BY <1>2, <3>2, SMT DEF FrameBit
    <3> QED
      BY <1>5, <2>1, <3>3, EdgeCases, SMT
  <2>2. CASE value_pd # 0
    BY <1>5, <2>2, EdgeCases, SMT
  <2> QED
    BY <2>1, <2>2
<1>6. CASE ep = "e7"
  <2>1. code_aux[9] = 1
    BY <1>6, SMT DEF ContentInv, FrameBit
  <2> QED
    BY <1>6, <2>1, EdgeCases, SMT
<1>7. CASE ep = "e8"
  BY <1>1, <1>2, <1>7, LateAges, EdgeCases, SMT
<1>8. CASE ep \in {"e1", "e3", "e4", "e5", "e6"}
  BY <1>8, EdgeCases, SMT
<1> QED
  BY <1>1, <1>4, <1>5, <1>6, <1>7, <1>8, SMT DEF States

-----------------------------------------------------------------------------
(* The invariant.                                                          *)

LEMMA InitInv == Init => Inv
<1> SUFFICES ASSUME Init PROVE Inv
  OBVIOUS
<1>1. TypeOK
  <2>1. Empty \in [0 .. 9 -> {0, 1}]
    BY DEF Empty
  <2>2. PDH + 1 \in 0 .. 4095
    BY SerialReceiverAssumption, SMT
  <2>3. Reception \in Nat
    BY Constants, SMT
  <2> QED
    BY <2>1, <2>2, <2>3, Constants, SerialReceiverAssumption, SMT DEF Init, TypeOK, States, Idle
<1>2. CounterInv /\ QuietInv /\ SyncInv /\ ContentInv /\ OwedInv
  BY Constants, SMT DEF Init, Idle, CounterInv, QuietInv, SyncInv, ContentInv, OwedInv
<1> QED
  BY <1>1, <1>2 DEF Inv

(* What Hold, NextBit, Pause and StartFrame have in common: the receiver   *)
(* sees an edge, and q cycles of quiet are on record.                      *)
LineStep(q) == Edge /\ Fades /\ Record(FALSE, q) /\ UNCHANGED <<noise, resets>>

LEMMA LineStepType ==
  ASSUME TypeOK, CounterInv, NEW q \in 0 .. Reception, LineStep(q),
         bit' \in 0 .. Idle, phase' \in 0 .. T - 1, byte' \in Bytes, owed' \in {0, 1}
  PROVE  TypeOK' /\ CounterInv'
<1>1. /\ ep' \in States /\ value_pd' \in 0 .. 4095 /\ value_bt' \in 0 .. 15
      /\ code_aux' \in [0 .. 9 -> {0, 1}]
      /\ CounterInv'
  BY EdgeType DEF LineStep
<1>2. pulse' \in 0 .. MaxPulse
  BY Constants, SMT DEF TypeOK, LineStep, Fades
<1>3. noise' \in 0 .. MaxNoise /\ resets' \in 0 .. MaxResets
  BY DEF TypeOK, LineStep
<1>4. quiet' \in 0 .. Reception /\ clean' \in {0, 1}
  BY DEF TypeOK, LineStep, Record
<1> QED
  BY <1>1, <1>2, <1>3, <1>4 DEF TypeOK

(* A frame on the line ends the quiet, and leaves clean as it is.          *)
LEMMA LineStepBusy ==
  ASSUME Inv, LineStep(0)
  PROVE  /\ quiet' = 0 /\ clean' = clean /\ QuietInv'
         /\ pulse' > 0 => pulse > 0 /\ pulse' = pulse - 1 /\ T <= PD + 3
<1>1. quiet' = 0 /\ clean' = clean
  BY Constants, SMT DEF LineStep, Record
<1>2. AgeCases'
  BY AgeTable
<1>3. Age' \in Nat
  BY AgeRange, AgeStep, SMT DEF Inv, LineStep, AgeBounds
<1>4. QuietInv'
  BY <1>1, <1>3, SMT DEF QuietInv
<1>5. pulse' > 0 => pulse > 0 /\ pulse' = pulse - 1 /\ T <= PD + 3
  BY SMT DEF LineStep, Fades, Inv, SyncInv
<1> QED
  BY <1>1, <1>4, <1>5

(* A frame goes on, with its next cycle.                                   *)
LEMMA FrameAge ==
  ASSUME Inv, Hold \/ NextBit
  PROVE  /\ LineStep(0) /\ bit # Idle /\ byte' = byte
         /\ \/ phase < T - 1 /\ bit' = bit /\ phase' = phase + 1
            \/ phase = T - 1 /\ bit' = bit + 1 /\ phase' = 0
         /\ bit' \in 0 .. Idle /\ phase' \in 0 .. T - 1 /\ LineAge' = LineAge + 1
         /\ owed' = IF ep' = "e8" THEN 0 ELSE owed
<1>1. bit \in 0 .. Idle /\ phase \in 0 .. T - 1
  BY DEF Inv, TypeOK
<1>2. LineStep(0) /\ bit # Idle /\ byte' = byte /\ owed' = IF ep' = "e8" THEN 0 ELSE owed
  BY DEF Hold, NextBit, LineStep
<1>5. \/ phase < T - 1 /\ bit' = bit /\ phase' = phase + 1
      \/ phase = T - 1 /\ bit' = bit + 1 /\ phase' = 0
  BY DEF Hold, NextBit
<1>3. bit' \in 0 .. Idle /\ phase' \in 0 .. T - 1
  BY <1>1, <1>2, <1>5, Constants, SMT DEF Idle
<1>4. LineAge' = LineAge + 1
  <2>1. CASE phase < T - 1 /\ bit' = bit /\ phase' = phase + 1
    <3>1. bit * T \in Nat
      BY <1>1, Constants, SMT DEF Idle
    <3> QED
      BY <1>1, <2>1, <3>1, Constants, SMT DEF LineAge
  <2>2. CASE phase = T - 1 /\ bit' = bit + 1 /\ phase' = 0
    <3>1. (bit + 1) * T = bit * T + T /\ bit * T \in Nat
      BY <1>1, Constants, SMT DEF Idle
    <3> QED
      BY <1>1, <2>2, <3>1, Constants, SMT DEF LineAge
  <2> QED
    BY <1>5, <2>1, <2>2
<1> QED
  BY <1>2, <1>3, <1>4, <1>5

(* While a frame goes on the two clocks stay together, and at its end the  *)
(* receiver waits.                                                         *)
LEMMA FrameSync ==
  ASSUME Inv, Hold \/ NextBit
  PROVE  SyncInv'
<1>1. /\ LineStep(0) /\ bit # Idle /\ LineAge' = LineAge + 1
      /\ bit' \in 0 .. Idle /\ phase' \in 0 .. T - 1
  BY FrameAge
<1>2. /\ clean' = clean
      /\ pulse' > 0 => pulse > 0 /\ pulse' = pulse - 1 /\ T <= PD + 3
  BY <1>1, LineStepBusy
<1>3. TypeOK /\ CounterInv /\ SyncInv /\ ContentInv /\ Edge
  BY <1>1 DEF Inv, LineStep
<1>4. bit \in 0 .. 9 /\ phase \in 0 .. T - 1 /\ pulse \in Nat /\ Age \in Nat
  BY <1>1, <1>3, AgeRange, Constants, SMT DEF TypeOK, Idle, AgeBounds
<1>5. LineAge \in Nat
  BY <1>4, Constants, SMT DEF LineAge
<1>6. Age' = IF ep' = "e0" THEN 0 ELSE Age + 1
  BY <1>3, AgeStep
<1>7. ASSUME clean = 1, bit' = Idle PROVE ep' = "e0" /\ pulse' = 0
  <2>1. bit = 9 /\ phase = T - 1
    BY <1>1, <1>4, <1>7, FrameAge, Constants, SMT DEF Idle
  <2>2. ep \in {"e0", "e8"} /\ (pulse > 0 => bit = 0)
    BY <1>1, <1>3, <1>7, <2>1, LateAges, LineIsFrame
  <2>3. pulse' = 0
    BY <1>1, <1>4, <2>1, <2>2, SMT DEF LineStep, Fades
  <2>4. ep' = "e0"
    BY <1>1, <1>3, <1>7, <2>1, <2>2, FrameStep, SMT
  <2> QED
    BY <2>3, <2>4
<1>8. ASSUME clean = 1, bit' # Idle
      PROVE  /\ pulse' > 0 => pulse' + LineAge' <= PDH + 2
             /\ ep' = "e0" => bit' = 9
             /\ ep' # "e0" => /\ LineAge' <= Age' /\ Age' <= LineAge' + PDH + 2
                              /\ Age' # LineAge' => T <= PD + 3
  <2>1. pulse > 0 => pulse + LineAge <= PDH + 2
    BY <1>1, <1>3, <1>8 DEF SyncInv
  <2>2. pulse' > 0 => pulse' + LineAge' <= PDH + 2
    BY <1>1, <1>2, <1>4, <1>5, <2>1, Constants, SMT
  <2>3. ep # "e0" => /\ LineAge <= Age /\ Age <= LineAge + PDH + 2
                     /\ Age # LineAge => T <= PD + 3
    BY <1>1, <1>3, <1>8 DEF SyncInv
  <2>4. \/ ep = "e0" /\ bit = 0 /\ LineAge = 0 /\ ep' = "e1"
        \/ ep \in {"e0", "e8"} /\ bit = 9 /\ pulse = 0 /\ ep' = "e0"
        \/ ep # "e0" /\ ep' # "e0"
    BY <1>1, <1>3, <1>8, FrameStep, SMT
  <2>5. CASE ep = "e0" /\ LineAge = 0 /\ ep' = "e1"
    <3>1. Age = 0
      BY <2>5, AgeTable DEF AgeCases
    <3> QED
      BY <1>1, <1>6, <2>2, <2>5, <3>1, Constants, SMT
  <2>6. CASE bit = 9 /\ ep' = "e0"
    <3>1. bit' = 9
      BY <1>1, <1>4, <1>8, <2>6, FrameAge, SMT DEF Idle
    <3> QED
      BY <2>2, <2>6, <3>1
  <2>7. CASE ep # "e0" /\ ep' # "e0"
    BY <1>1, <1>4, <1>5, <1>6, <2>2, <2>3, <2>7, Constants, SMT
  <2> QED
    BY <2>4, <2>5, <2>6, <2>7
<1> QED
  BY <1>2, <1>7, <1>8, SMT DEF SyncInv

(* Each edge of a frame shifts the right bit in.                           *)
LEMMA FrameContent ==
  ASSUME Inv, Hold \/ NextBit
  PROVE  ContentInv'
<1>1. /\ LineStep(0) /\ bit # Idle /\ byte' = byte
  BY FrameAge
<1>2. clean' = clean
  BY <1>1, LineStepBusy
<1> SUFFICES ASSUME clean = 1 PROVE
      /\ ep' \in {"e4", "e5", "e6"} =>
           \A i \in 0 .. 9 : i > value_bt' => code_aux'[i] = FrameBit(i - 1 - value_bt')
      /\ ep' \in {"e7", "e8"} => \A i \in 0 .. 9 : code_aux'[i] = FrameBit(i)
  BY <1>1, <1>2 DEF ContentInv, FrameBit
<1>3. TypeOK /\ CounterInv /\ SyncInv /\ Edge /\ SampleInItsBit
  BY <1>1, InStepSamples DEF Inv, LineStep
<1>4. /\ ep \in {"e4", "e5", "e6"} =>
           \A i \in 0 .. 9 : i > value_bt => code_aux[i] = FrameBit(i - 1 - value_bt)
      /\ ep \in {"e7", "e8"} => \A i \in 0 .. 9 : code_aux[i] = FrameBit(i)
  BY <1>1 DEF Inv, ContentInv
<1>5. value_bt \in 0 .. 15 /\ ep \in States /\ bit \in 0 .. 9
  BY <1>1, <1>3, SMT DEF TypeOK, Idle
<1>6. midi_rx = FrameBit(bit)
  BY <1>1, <1>3, LineIsFrame
<1>7. ep \in {"e3", "e5"} =>
        \A i \in 0 .. 9 : code_aux'[i] = IF i = 9 THEN midi_rx ELSE code_aux[i + 1]
  BY <1>3 DEF Edge, Shift
<1>8. ep \notin {"e3", "e5"} => code_aux' = code_aux
  BY <1>3 DEF Edge, Shift
<1>9. CASE ep = "e3"
  <2>1. ep' = "e4" /\ value_bt' = 8 /\ bit = 0
    BY <1>3, <1>9, EdgeCases, SMT DEF SampleInItsBit
  <2>2. code_aux'[9] = FrameBit(0)
    BY <1>6, <1>7, <1>9, <2>1, SMT
  <2> QED
    BY <2>1, <2>2, SMT
<1>10. CASE ep = "e5"
  <2>1. bit = 9 - value_bt /\ value_bt \in 0 .. 8
    BY <1>3, <1>5, <1>10, SMT DEF SampleInItsBit, CounterInv
  <2>2. ASSUME NEW i \in 0 .. 9, i > value_bt - 1
        PROVE  code_aux'[i] = FrameBit(i - value_bt)
    <3>1. CASE i = 9
      BY <1>6, <1>7, <1>10, <2>1, <3>1, SMT
    <3>2. CASE i < 9
      <4>1. code_aux'[i] = code_aux[i + 1]
        BY <1>7, <1>10, <3>2, SMT
      <4>2. i + 1 \in 0 .. 9 /\ i + 1 > value_bt /\ (i + 1) - 1 - value_bt = i - value_bt
        BY <2>1, <2>2, <3>2, SMT
      <4>3. code_aux[i + 1] = FrameBit((i + 1) - 1 - value_bt)
        BY <1>4, <1>10, <4>2
      <4> QED
        BY <4>1, <4>2, <4>3
    <3> QED
      BY <3>1, <3>2, SMT
  <2>3. CASE value_bt = 0
    <3>1. ep' = "e7"
      BY <1>3, <1>10, <2>3, EdgeCases, SMT
    <3>2. ASSUME NEW i \in 0 .. 9 PROVE code_aux'[i] = FrameBit(i)
      <4>1. i > value_bt - 1 /\ i - value_bt = i
        BY <2>3, SMT
      <4> QED
        BY <2>2, <4>1
    <3> QED
      BY <3>1, <3>2
  <2>4. CASE value_bt > 0
    <3>1. ep' = "e6" /\ value_bt' = value_bt - 1
      BY <1>3, <1>10, <2>1, <2>4, EdgeCases, SMT
    <3>2. ASSUME NEW i \in 0 .. 9, i > value_bt'
          PROVE  code_aux'[i] = FrameBit(i - 1 - value_bt')
      <4>1. i > value_bt - 1 /\ i - 1 - value_bt' = i - value_bt
        BY <2>1, <3>1, <3>2, SMT
      <4> QED
        BY <2>2, <4>1
    <3> QED
      BY <3>1, <3>2
  <2> QED
    BY <2>1, <2>3, <2>4, SMT
<1>11. CASE ep \in {"e4", "e6"}
  BY <1>3, <1>4, <1>8, <1>11, EdgeCases, SMT
<1>12. CASE ep = "e7"
  BY <1>3, <1>4, <1>8, <1>12, EdgeCases, SMT
<1>13. CASE ep \in {"e0", "e1", "e2", "e8"}
  BY <1>3, <1>13, EdgeCases, SMT
<1> QED
  BY <1>5, <1>9, <1>10, <1>11, <1>12, <1>13, SMT DEF States

LEMMA FrameOwed ==
  ASSUME Inv, Hold \/ NextBit
  PROVE  OwedInv'
<1>1. /\ LineStep(0) /\ bit # Idle /\ owed' = IF ep' = "e8" THEN 0 ELSE owed
      /\ LineAge' = LineAge + 1
  BY FrameAge
<1>2. clean' = clean
  BY <1>1, LineStepBusy
<1>3. TypeOK /\ CounterInv /\ SyncInv /\ ContentInv /\ OwedInv /\ Edge
  BY <1>1 DEF Inv, LineStep
<1>4. CASE clean = 0
  BY <1>1, <1>2, <1>3, <1>4, SMT DEF OwedInv
<1>5. CASE clean = 1
  <2>1. owed \in {0, 1} /\ bit \in 0 .. 9
    BY <1>1, <1>3, SMT DEF TypeOK, Idle
  <2>2. owed = 1 <=> ep \notin {"e0", "e8"} \/ (ep = "e0" /\ bit = 0)
    BY <1>1, <1>3, <1>5 DEF OwedInv
  <2>3. CASE ep = "e0" /\ bit = 0 /\ ep' = "e1"
    <3>1. bit' # Idle
      BY <2>3, FrameAge, SMT DEF Idle
    <3> QED
      BY <1>1, <1>2, <1>5, <2>2, <2>3, <3>1, SMT DEF OwedInv
  <2>4. CASE ep \in {"e0", "e8"} /\ bit = 9 /\ ep' = "e0"
    <3>1. bit' \in {9, Idle}
      BY <2>4, FrameAge, SMT DEF Idle
    <3> QED
      BY <1>1, <1>2, <1>5, <2>1, <2>2, <2>4, <3>1, SMT DEF OwedInv, Idle
  <2>5. CASE ep = "e7" /\ ep' = "e8"
    BY <1>1, <1>2, <1>5, <2>5, SMT DEF OwedInv
  <2>6. CASE ep \notin {"e0", "e7", "e8"} /\ ep' \notin {"e0", "e8"}
    <3>1. bit' # Idle
      <4>1. ~(bit = 9 /\ phase = T - 1)
        BY <1>1, <1>3, <1>5, <2>6, LateAges
      <4> QED
        BY <1>1, <2>1, <4>1, FrameAge, SMT DEF Idle
    <3> QED
      BY <1>1, <1>2, <1>5, <2>2, <2>6, <3>1, SMT DEF OwedInv
  <2> QED
    BY <1>1, <1>3, <1>5, <2>3, <2>4, <2>5, <2>6, FrameStep, SMT
<1> QED
  BY <1>3, <1>4, <1>5 DEF TypeOK

LEMMA FrameInv == Inv /\ (Hold \/ NextBit) => Inv'
<1> SUFFICES ASSUME Inv, Hold \/ NextBit PROVE Inv'
  OBVIOUS
<1>1. /\ LineStep(0) /\ byte' = byte /\ bit' \in 0 .. Idle /\ phase' \in 0 .. T - 1
      /\ owed' = IF ep' = "e8" THEN 0 ELSE owed
  BY FrameAge
<1>2. byte' \in Bytes /\ owed' \in {0, 1} /\ 0 \in 0 .. Reception
  BY <1>1, Constants, SMT DEF Inv, TypeOK
<1>3. TypeOK' /\ CounterInv'
  BY <1>1, <1>2, LineStepType DEF Inv
<1>4. QuietInv'
  BY <1>1, LineStepBusy
<1> QED
  BY <1>3, <1>4, FrameSync, FrameContent, FrameOwed DEF Inv

(* When the quiet of one reception is complete the receiver waits.         *)
LEMMA QuietOver ==
  ASSUME TypeOK, CounterInv, QuietInv, quiet = Reception
  PROVE  ep = "e0" /\ bit = Idle /\ pulse = 0
<1>1. bit = Idle /\ pulse = 0
  BY Constants, SMT DEF QuietInv
<1>2. ep = "e0"
  BY AgeRange, Constants, SMT DEF QuietInv, AgeBounds
<1> QED
  BY <1>1, <1>2

LEMMA PauseInv == Inv /\ Pause => Inv'
<1> SUFFICES ASSUME Inv, Pause PROVE Inv'
  OBVIOUS
<1> DEFINE q == IF pulse > 0 THEN 0 ELSE IF quiet < Reception THEN quiet + 1 ELSE quiet
<1>1. TypeOK /\ CounterInv /\ QuietInv /\ SyncInv /\ OwedInv
  BY DEF Inv
<1>2. /\ LineStep(q) /\ Edge /\ Fades /\ bit = Idle /\ bit' = Idle
      /\ phase' = phase /\ byte' = byte /\ owed' = IF ep' = "e8" THEN 0 ELSE owed
  BY DEF Pause, LineStep
<1>3. pulse \in Nat /\ quiet \in 0 .. Reception /\ Age \in Nat /\ owed \in {0, 1} /\ clean \in {0, 1}
  BY <1>1, AgeRange, Constants, SMT DEF TypeOK, AgeBounds
<1>4. q \in 0 .. Reception
  BY <1>3, Constants, SMT
<1>5. quiet' = q /\ clean' = IF q = Reception THEN 1 ELSE clean
  BY <1>2 DEF LineStep, Record
<1>6. pulse' = IF pulse > 0 THEN pulse - 1 ELSE 0
  BY <1>2 DEF Fades
<1>7. TypeOK' /\ CounterInv'
  <2>1. bit' \in 0 .. Idle /\ phase' \in 0 .. T - 1 /\ byte' \in Bytes /\ owed' \in {0, 1}
    BY <1>1, <1>2, SMT DEF TypeOK
  <2> QED
    BY <1>1, <1>2, <1>4, <2>1, LineStepType
<1>8. QuietInv'
  <2>1. quiet' > 0 => bit' = Idle /\ pulse' = 0
    BY <1>2, <1>3, <1>5, <1>6, SMT
  <2>2. quiet' <= Age' \/ ep' = "e0"
    <3>1. Age' = IF ep' = "e0" THEN 0 ELSE Age + 1
      BY <1>1, <1>2, AgeStep
    <3>2. CASE ep = "e0"
      <4>1. pulse = 0 => midi_rx = 1
        BY <1>2, SMT DEF midi_rx, Idle
      <4>2. pulse = 0 => ep' = "e0"
        BY <1>1, <1>2, <3>2, <4>1, EdgeCases, SMT
      <4> QED
        BY <1>3, <1>5, <3>1, <4>2, SMT
    <3>3. CASE ep # "e0"
      BY <1>1, <1>3, <1>5, <3>1, <3>3, SMT DEF QuietInv
    <3> QED
      BY <3>2, <3>3
  <2> QED
    BY <2>1, <2>2 DEF QuietInv
<1>9. quiet' = Reception => ep' = "e0" /\ pulse' = 0
  <2> SUFFICES ASSUME quiet' = Reception PROVE ep' = "e0" /\ pulse' = 0
    OBVIOUS
  <2>1. pulse' = 0
    BY <1>8, Constants, SMT DEF QuietInv
  <2>2. ep # "e0" => Age < Reception
    BY <1>1, AgeRange DEF AgeBounds
  <2>3. CASE ep' # "e0"
    <3>1. Age' < Reception
      BY <1>7, <2>3, AgeRangeNext DEF AgeBounds
    <3>2. Age' \in Nat
      BY <1>7, AgeRangeNext DEF AgeBounds
    <3> QED
      BY <1>8, <2>3, <3>1, <3>2, Constants, SMT DEF QuietInv
  <2> QED
    BY <2>1, <2>3
<1>10. clean' = 1 => (quiet' = Reception \/ clean = 1)
  BY <1>5
<1>11. clean' = 1 =>
         /\ ep' \in {"e0", "e1", "e2"}
         /\ ep' # "e0" => T <= PD + 3
         /\ pulse' > 0 => Age' + pulse' <= PDH + 2
  BY <1>1, <1>2, <1>9, <1>10, IdleStep, SMT
<1>12. SyncInv'
  <2>1. pulse' > 0 => T <= PD + 3
    BY <1>1, <1>6, SMT DEF SyncInv
  <2> QED
    BY <1>2, <1>11, <2>1 DEF SyncInv
<1>13. ContentInv'
  BY <1>2 DEF ContentInv
<1>14. OwedInv'
  <2>1. owed = 0
    BY <1>1, <1>2, <1>3, SMT DEF OwedInv
  <2>2. owed' = 0
    BY <1>2, <2>1
  <2> QED
    BY <1>2, <2>2, SMT DEF OwedInv
<1> QED
  BY <1>7, <1>8, <1>12, <1>13, <1>14 DEF Inv

(* A frame that begins finds a receiver that waits, or one that a pulse    *)
(* has given a head start of at most half a bit.                           *)
LEMMA StartFrameInv == Inv /\ StartFrame => Inv'
<1> SUFFICES ASSUME Inv, StartFrame PROVE Inv'
  OBVIOUS
<1>1. TypeOK /\ CounterInv /\ QuietInv /\ SyncInv /\ ContentInv /\ OwedInv
  BY DEF Inv
<1>2. /\ LineStep(0) /\ Edge /\ Fades /\ bit' = 0 /\ phase' = 0 /\ byte' \in Bytes
      /\ owed' = clean'
  BY DEF StartFrame, LineStep
<1>3. bit = Idle \/ (bit = 9 /\ phase = T - 1)
  BY DEF StartFrame
<1>4. /\ quiet' = 0 /\ clean' = clean /\ QuietInv'
      /\ pulse' > 0 => pulse > 0 /\ pulse' = pulse - 1 /\ T <= PD + 3
  BY <1>2, LineStepBusy
<1>5. TypeOK' /\ CounterInv'
  <2>1. bit' \in 0 .. Idle /\ phase' \in 0 .. T - 1 /\ owed' \in {0, 1} /\ 0 \in 0 .. Reception
    BY <1>1, <1>2, <1>4, Constants, SMT DEF TypeOK, Idle
  <2> QED
    BY <1>1, <1>2, <2>1, LineStepType
<1>6. clean = 1 =>
        /\ ep' \in {"e0", "e1", "e2"}
        /\ ep' # "e0" => T <= PD + 3
        /\ pulse' > 0 => Age' + pulse' <= PDH + 2
  <2>1. CASE bit = Idle
    BY <1>1, <1>2, <2>1, IdleStep
  <2>2. ASSUME clean = 1, bit = 9, phase = T - 1 PROVE ep' = "e0" /\ pulse' = 0
    <3>1. bit # Idle
      BY <2>2, SMT DEF Idle
    <3>2. ep \in {"e0", "e8"} /\ (pulse > 0 => bit = 0)
      BY <1>1, <2>2, <3>1, LateAges, LineIsFrame
    <3>3. ep' = "e0"
      BY <1>1, <1>2, <2>2, <3>1, <3>2, FrameStep, SMT
    <3>4. pulse' = 0
      BY <1>2, <2>2, <3>2, SMT DEF Fades
    <3> QED
      BY <3>3, <3>4
  <2> QED
    BY <1>3, <2>1, <2>2, SMT
<1>7. LineAge' = 0
  BY <1>2, Constants, SMT DEF LineAge
<1>8. pulse' \in Nat /\ value_pd' \in Nat /\ Age' \in Nat
  BY <1>5, AgeRangeNext, Constants, SMT DEF TypeOK, AgeBounds
<1>9. SyncInv'
  <2>1. ASSUME clean = 1, ep' # "e0" PROVE LineAge' <= Age' /\ Age' <= LineAge' + PDH + 2 /\ T <= PD + 3
    <3>1. Age' = 1 \/ Age' = PDH + 2 - value_pd'
      BY <1>6, <2>1, AgeTable DEF AgeCases
    <3>2. T <= PD + 3
      BY <1>6, <2>1
    <3>4. PICK a \in Nat, v \in Nat : a = Age' /\ v = value_pd'
      BY <1>8
    <3>5. a = 1 \/ a = PDH + 2 - v
      BY <3>1, <3>4
    <3>6. 0 <= a /\ a <= 0 + PDH + 2
      BY <3>5, Constants, SMT
    <3>3. 0 <= Age' /\ Age' <= 0 + PDH + 2
      BY <3>4, <3>6
    <3> QED
      BY <1>7, <3>2, <3>3, Constants, SMT
  <2>2. ASSUME clean = 1, pulse' > 0 PROVE pulse' + LineAge' <= PDH + 2
    <3>1. Age' + pulse' <= PDH + 2
      BY <1>6, <2>2
    <3>2. PICK a \in Nat, p \in Nat : a = Age' /\ p = pulse'
      BY <1>8
    <3>3. a + p <= PDH + 2
      BY <3>1, <3>2
    <3>4. p + 0 <= PDH + 2
      BY <3>3, Constants, SMT
    <3> QED
      BY <1>7, <3>2, <3>4
  <2>3. bit' # Idle
    BY <1>2, SMT DEF Idle
  <2> QED
    BY <1>4, <1>7, <2>1, <2>2, <2>3 DEF SyncInv
<1>10. ContentInv'
  BY <1>4, <1>6, SMT DEF ContentInv
<1>11. OwedInv'
  <2>1. bit' # Idle
    BY <1>2, SMT DEF Idle
  <2>2. clean' \in {0, 1}
    BY <1>5 DEF TypeOK
  <2> QED
    BY <1>2, <1>4, <1>6, <2>1, <2>2, SMT DEF OwedInv
<1> QED
  BY <1>4, <1>5, <1>9, <1>10, <1>11 DEF Inv

(* A pulse that finds the line or the receiver at work disturbs it.        *)
LEMMA NoiseInv == Inv /\ Noise => Inv'
<1> SUFFICES ASSUME Inv, Noise PROVE Inv'
  OBVIOUS
<1>1. TypeOK /\ CounterInv /\ QuietInv /\ SyncInv /\ OwedInv
  BY DEF Inv
<1>2. /\ ep' = ep /\ value_pd' = value_pd /\ value_bt' = value_bt /\ code_aux' = code_aux
      /\ bit' = bit /\ phase' = phase /\ byte' = byte /\ resets' = resets
  BY DEF Noise, receiver
<1>3. /\ noise < MaxNoise /\ noise' = noise + 1 /\ pulse' \in 1 .. MaxPulse /\ quiet' = 0
  BY DEF Noise, Record
<1>4. clean' = 1 => clean = 1 /\ bit = Idle /\ ep = "e0"
  BY Constants, SMT DEF Noise, Record
<1>5. owed' = IF clean' = 1 THEN owed ELSE 0
  BY DEF Noise
<1>6. clean' \in {0, 1}
  BY <1>1, SMT DEF Noise, Record, TypeOK
<1>7. T <= PD + 3
  BY <1>1, <1>3, SerialReceiverAssumption, SMT DEF TypeOK
<1>8. TypeOK'
  <2>1. noise' \in 0 .. MaxNoise /\ pulse' \in 0 .. MaxPulse /\ quiet' \in 0 .. Reception
    BY <1>1, <1>3, Constants, SerialReceiverAssumption, SMT DEF TypeOK
  <2>2. owed' \in {0, 1}
    BY <1>1, <1>5 DEF TypeOK
  <2> QED
    BY <1>1, <1>2, <1>6, <2>1, <2>2 DEF TypeOK
<1>9. CounterInv'
  BY <1>1, <1>2 DEF CounterInv
<1>10. QuietInv'
  <2>1. Age' \in Nat
    BY <1>8, <1>9, AgeRangeNext DEF AgeBounds
  <2> QED
    BY <1>3, <2>1, SMT DEF QuietInv
<1>11. SyncInv'
  <2>1. clean' = 1 => Age' + pulse' <= PDH + 2
    <3> SUFFICES ASSUME clean' = 1 PROVE Age' + pulse' <= PDH + 2
      OBVIOUS
    <3>1. Age' = 0
      BY <1>2, <1>4, AgeTable DEF AgeCases
    <3>2. PICK p \in 1 .. MaxPulse : p = pulse'
      BY <1>3
    <3>3. 0 + p <= PDH + 2
      BY Constants, SMT
    <3> QED
      BY <3>1, <3>2, <3>3
  <2> QED
    BY <1>2, <1>4, <1>7, <2>1 DEF SyncInv
<1>12. ContentInv'
  BY <1>2, <1>4 DEF ContentInv
<1>13. OwedInv'
  BY <1>1, <1>2, <1>4, <1>5, <1>6, SMT DEF OwedInv
<1> QED
  BY <1>8, <1>9, <1>10, <1>11, <1>12, <1>13 DEF Inv

(* After KEY0 the receiver waits, and what is on the line is lost.         *)
LEMMA ResetInv == Inv /\ Reset => Inv'
<1> SUFFICES ASSUME Inv, Reset PROVE Inv'
  OBVIOUS
<1>1. TypeOK /\ CounterInv /\ QuietInv /\ SyncInv /\ OwedInv
  BY DEF Inv
<1>2. /\ ep' = "e0" /\ value_pd' = PDH + 1 /\ value_bt' = 8 /\ code_aux' = Empty
      /\ bit' = bit /\ phase' = phase /\ byte' = byte /\ pulse' = pulse /\ noise' = noise
      /\ resets < MaxResets /\ resets' = resets + 1 /\ quiet' = quiet /\ owed' = 0
  BY DEF Reset, line, Record
<1>3. clean' = IF bit # Idle THEN 0 ELSE IF quiet = Reception THEN 1 ELSE clean
  BY DEF Reset, Record
<1>4. TypeOK'
  <2>1. PDH + 1 \in 0 .. 4095
    BY SerialReceiverAssumption, SMT
  <2>2. Empty \in [0 .. 9 -> {0, 1}]
    BY DEF Empty
  <2>3. resets' \in 0 .. MaxResets
    BY <1>1, <1>2, SerialReceiverAssumption, SMT DEF TypeOK
  <2>4. clean' \in {0, 1}
    BY <1>1, <1>3 DEF TypeOK
  <2>5. ep' \in States /\ value_bt' \in 0 .. 15
    BY <1>2, SMT DEF States
  <2> QED
    BY <1>1, <1>2, <2>1, <2>2, <2>3, <2>4, <2>5 DEF TypeOK
<1>5. CounterInv'
  BY <1>2 DEF CounterInv
<1>6. QuietInv'
  BY <1>1, <1>2 DEF QuietInv
<1>7. SyncInv'
  <2>1. Age' = 0
    BY <1>2, AgeTable DEF AgeCases
  <2>2. pulse' > 0 => Age' + pulse' <= PDH + 2
    BY <1>1, <1>2, <2>1, Constants, SMT DEF TypeOK
  <2> QED
    BY <1>1, <1>2, <1>3, <2>2 DEF SyncInv
<1>8. ContentInv'
  BY <1>2 DEF ContentInv
<1>9. OwedInv'
  BY <1>2, <1>3, SMT DEF OwedInv
<1> QED
  BY <1>4, <1>5, <1>6, <1>7, <1>8, <1>9 DEF Inv

LEMMA StutterInv == Inv /\ UNCHANGED vars => Inv'
<1> SUFFICES ASSUME Inv, UNCHANGED vars PROVE Inv'
  OBVIOUS
<1>1. /\ ep' = ep /\ value_pd' = value_pd /\ value_bt' = value_bt /\ code_aux' = code_aux
      /\ bit' = bit /\ phase' = phase /\ byte' = byte /\ pulse' = pulse
      /\ noise' = noise /\ resets' = resets /\ quiet' = quiet /\ clean' = clean /\ owed' = owed
  BY DEF vars, receiver, line
<1>2. Age' = Age
  BY <1>1, SMT DEF Age
<1>3. LineAge' = LineAge
  BY <1>1, SMT DEF LineAge
<1>4. TypeOK' /\ CounterInv'
  BY <1>1, SMT DEF Inv, TypeOK, CounterInv
<1>5. QuietInv' /\ SyncInv'
  BY <1>1, <1>2, <1>3, SMT DEF Inv, QuietInv, SyncInv
<1>6. ContentInv' /\ OwedInv'
  BY <1>1, SMT DEF Inv, ContentInv, OwedInv, FrameBit
<1> QED
  BY <1>4, <1>5, <1>6 DEF Inv

THEOREM SpecInv == Spec => []Inv
<1>1. Inv /\ [Next]_vars => Inv'
  BY FrameInv, PauseInv, StartFrameInv, NoiseInv, ResetInv, StutterInv DEF Next
<1> QED
  BY InitInv, <1>1, PTL DEF Spec

-----------------------------------------------------------------------------
(* The properties.                                                         *)

(* The state of modulo1 and UCmodulo1 stays within its types: the period   *)
(* and the bit counter never leave their 12 and 4 bits.                    *)
THEOREM SerialReceiverTypeOK == Spec => []TypeOK
BY SpecInv, PTL DEF Inv

(* modulo1 takes every sample while the bit it is meant for is on the      *)
(* line, for every bit time and period within the tolerance.               *)
THEOREM SerialReceiverSamples == Spec => []SampleInItsBit
<1>1. Inv => SampleInItsBit
  BY InStepSamples DEF Inv
<1> QED
  BY SpecInv, <1>1, PTL

(* Whatever reset or pulse came before, UCmodulo1 is back in e0 when the   *)
(* line has been quiet for one reception.                                  *)
THEOREM SerialReceiverInStep == Spec => []InStepWhenQuiet
<1>1. Inv => InStepWhenQuiet
  BY QuietOver DEF Inv, InStepWhenQuiet
<1> QED
  BY SpecInv, <1>1, PTL

(* ready comes once for a byte that was sent, and code is that byte.       *)
THEOREM SerialReceiverReports == Spec => ByteReported
<1>1. ASSUME Inv, [Next]_vars, ep = "e7", ep' = "e8", clean = 1
      PROVE  owed = 1 /\ code' = byte
  <2>1. TypeOK /\ SyncInv /\ ContentInv /\ OwedInv
    BY <1>1 DEF Inv
  <2>2. bit # Idle
    BY <1>1, <2>1 DEF SyncInv
  <2>3. owed = 1
    BY <1>1, <2>1, <2>2, SMT DEF OwedInv
  <2>4. Edge
    <3>1. ~Noise /\ ~UNCHANGED vars
      BY <1>1, SMT DEF Noise, vars, receiver
    <3>2. ~Reset
      BY <1>1, SMT DEF Reset
    <3> QED
      BY <1>1, <3>1, <3>2 DEF Next, Hold, NextBit, Pause, StartFrame
  <2>5. code_aux' = code_aux
    BY <1>1, <2>4, SMT DEF Edge, Shift
  <2>6. \A i \in 1 .. 8 : code_aux[i] = byte[i]
    BY <1>1, <2>1, <2>2, SMT DEF ContentInv, FrameBit
  <2>7. byte \in [1 .. 8 -> {0, 1}]
    BY <2>1, SerialReceiverAssumption DEF TypeOK
  <2>8. code' = byte
    BY <2>5, <2>6, <2>7 DEF code
  <2> QED
    BY <2>3, <2>8
<1>2. Inv /\ [Next]_vars => [ep = "e7" /\ ep' = "e8" /\ clean = 1 => owed = 1 /\ code' = byte]_vars
  BY <1>1
<1> QED
  BY SpecInv, <1>2, PTL DEF Spec, ByteReported

(* UCmodulo1 reports a byte before the next frame begins, although it      *)
(* spends cycles between the samples that the line does not wait for.      *)
THEOREM SerialReceiverKeepsUp == Spec => NoFrameLost
<1>1. ASSUME Inv, [Next]_vars, bit # 0, bit' = 0
      PROVE  owed = 0
  <2>1. TypeOK /\ CounterInv /\ SyncInv /\ OwedInv
    BY <1>1 DEF Inv
  <2>2. bit \in 0 .. Idle /\ owed \in {0, 1} /\ clean \in {0, 1}
    BY <2>1 DEF TypeOK
  <2>3. bit = Idle \/ (bit = 9 /\ phase = T - 1)
    <3>1. CASE StartFrame
      BY <3>1 DEF StartFrame
    <3>2. CASE NextBit
      BY <1>1, <2>2, <3>2, SMT DEF NextBit, Idle
    <3>3. CASE Hold \/ Pause \/ Noise \/ Reset \/ UNCHANGED vars
      BY <1>1, <3>3 DEF Hold, Pause, Noise, Reset, vars, line
    <3> QED
      BY <1>1, <3>1, <3>2, <3>3 DEF Next
  <2>4. CASE clean = 0
    BY <2>1, <2>4 DEF OwedInv
  <2>5. CASE clean = 1 /\ bit = Idle
    BY <2>1, <2>2, <2>5, SMT DEF OwedInv
  <2>6. ASSUME clean = 1, bit = 9, phase = T - 1 PROVE owed = 0
    <3>1. bit # Idle
      BY <2>6, SMT DEF Idle
    <3>2. ep \in {"e0", "e8"}
      BY <2>1, <2>6, <3>1, LateAges
    <3> QED
      BY <2>1, <2>2, <2>6, <3>1, <3>2, SMT DEF OwedInv
  <2> QED
    BY <2>2, <2>3, <2>4, <2>5, <2>6
<1>2. Inv /\ [Next]_vars => [bit # 0 /\ bit' = 0 => owed = 0]_vars
  BY <1>1
<1> QED
  BY SpecInv, <1>2, PTL DEF Spec, NoFrameLost
=============================================================================
