--------------------------- MODULE AuSetupProofs ---------------------------
(***************************************************************************)
(* The set-up of the codec, for every table, every length of its bytes and *)
(* every period of the bus, and for a codec that refuses any byte any      *)
(* number of times.                                                        *)
(*                                                                         *)
(* Inv is inductive.  PhaseInv says in which half of the period each state *)
(* of the master is and which bit it drives; CodecInv what the codec has   *)
(* then taken of the word, or, when it is idle in the middle of one, that  *)
(* it has no word left since it refused a byte; CountInv that the words it *)
(* has are as many as the master wrote.                                    *)
(***************************************************************************)
EXTENDS AuSetup, SequenceTheorems, TLAPS

Bit == {0, 1}

TypeInv ==
  /\ ep_setup \in {"e0", "e1", "e2", "e3", "e4", "e5"}
  /\ ctmp \in 0 .. 2 * HALF - 1 /\ cbits \in 0 .. 3 * ByteBits
  /\ caddr \in 0 .. LADDR /\ sdat \in Bit
  /\ mode \in {"idle", "byte", "accept"} /\ got \in Seq(Bit)
  /\ pull \in BOOLEAN /\ taken \in Seq(Seq(Bit))

(* Where the master is in the period of the clock, and the bit it drives. *)
PhaseInv ==
  /\ ep_setup = "e0" => ctmp >= HALF /\ cbits = 0
  /\ ep_setup = "e1" /\ cbits = 0 => ctmp >= HALF
  /\ ep_setup = "e1" /\ cbits > 0 => sdat = Table(caddr)[cbits]
  /\ ep_setup = "e2" => stop /\ ctmp < HALF
  /\ ep_setup = "e3" => stop /\ ctmp >= HALF
  /\ ep_setup = "e4" => bit24 /\ sdat = 0
  /\ ep_setup = "e5" => ctmp = 0

(* The bits of the word the codec has by now. *)
Clocked ==
  IF ep_setup = "e1" THEN IF cbits = 0 \/ ctmp >= HALF THEN cbits ELSE cbits - 1
  ELSE IF ep_setup = "e0" THEN 0
  ELSE IF ep_setup = "e5" \/ (ep_setup = "e4" /\ ctmp >= HALF) THEN cbits + 1
  ELSE cbits

SoFar == \A b \in 1 .. cbits : b <= Len(got) => got[b] = Table(caddr)[b]

CodecInv ==
  /\ pull <=> mode = "accept"
  /\ mode = "byte" => ep_setup \in {"e0", "e1", "e4", "e5"}
  /\ mode = "accept" => ep_setup \in {"e2", "e3"}
  /\ mode # "idle" => Len(got) = Clocked /\ SoFar
  /\ mode = "byte" /\ ep_setup = "e0" => sdat = 0
  /\ mode = "idle" => /\ ep_setup \in {"e0", "e1", "e2"}
                      /\ taken = <<>> \/ (ep_setup = "e0" /\ sdat = 1)
  /\ ep_setup = "e5" => cbits = 3 * ByteBits

Words == \A i \in 1 .. Len(taken) :
           /\ i - 1 <= LADDR
           /\ \A b \in 1 .. 3 * ByteBits : taken[i][b] = Table(i - 1)[b]

CountInv ==
  /\ ep_setup \in {"e0", "e1"} => Len(taken) = caddr
  /\ ep_setup \in {"e2", "e3"} /\ mode = "accept" =>
       Len(taken) = IF bit24 THEN caddr + 1 ELSE caddr
  /\ ep_setup = "e4" => Len(taken) = caddr + 1
  /\ ep_setup = "e5" => Len(taken) = LADDR + 1

Inv == TypeInv /\ PhaseInv /\ CodecInv /\ Words /\ CountInv

-----------------------------------------------------------------------------
(* Arithmetic of the period and of the bytes.                              *)
LEMMA ModFacts ==
  ASSUME NEW m \in Nat \ {0}, NEW x \in Int
  PROVE  /\ x \in 0 .. m - 1 => x % m = x
         /\ x \in m .. 2 * m - 1 => x % m = x - m
         /\ x \in 2 * m .. 3 * m - 1 => x % m = x - 2 * m
         /\ x \in 3 * m .. 4 * m - 1 => x % m = x - 3 * m
OBVIOUS

LEMMA Sizes ==
  /\ HALF \in Nat /\ HALF >= 2 /\ ByteBits \in Nat /\ ByteBits >= 2
  /\ LADDR \in Nat /\ 0 \in 0 .. LADDR
  /\ \A a \in 0 .. LADDR : \A b \in 1 .. 3 * ByteBits : Table(a)[b] \in Bit
<1>1. /\ HALF \in Nat /\ HALF >= 2 /\ ByteBits \in Nat /\ ByteBits >= 2
      /\ LADDR \in Nat
  BY SoundAssumption
<1>2. \A a \in 0 .. LADDR : Table(a) \in [1 .. 3 * ByteBits -> {0, 1}]
  BY SoundAssumption
<1> QED
  BY <1>1, <1>2 DEF Bit

LEMMA TickFacts ==
  ASSUME NEW t \in 0 .. 2 * HALF - 1
  PROVE  /\ t = 2 * HALF - 1 => (t + 1) % (2 * HALF) = 0
         /\ t # 2 * HALF - 1 => (t + 1) % (2 * HALF) = t + 1
<1>1. 2 * HALF \in Nat \ {0} /\ t + 1 \in Int
  BY Sizes
<1>2. t = 2 * HALF - 1 => t + 1 \in 2 * HALF .. 2 * (2 * HALF) - 1
  BY Sizes
<1>3. t # 2 * HALF - 1 => t + 1 \in 0 .. 2 * HALF - 1
  BY Sizes
<1>4. t = 2 * HALF - 1 => (t + 1) % (2 * HALF) = (t + 1) - 2 * HALF
  BY <1>1, <1>2, ModFacts
<1>5. t # 2 * HALF - 1 => (t + 1) % (2 * HALF) = t + 1
  BY <1>1, <1>3, ModFacts
<1> QED
  BY <1>4, <1>5, Sizes

(* A byte is whole after ByteBits bits, and not after the bit that follows *)
(* the last byte of a word.                                                *)
LEMMA ByteFacts ==
  ASSUME NEW k \in 0 .. 3 * ByteBits + 1
  PROVE  k % ByteBits = 0
           <=> k \in {0, ByteBits, 2 * ByteBits, 3 * ByteBits}
<1> DEFINE m == ByteBits
<1>1. m \in Nat \ {0} /\ m >= 2 /\ k \in Int
  BY Sizes
<1>2. CASE k \in 0 .. m - 1
  BY <1>1, <1>2, ModFacts
<1>3. CASE k \in m .. 2 * m - 1
  <2>1. k % m = k - m
    BY <1>1, <1>3, ModFacts
  <2> QED
    BY <1>1, <1>3, <2>1
<1>4. CASE k \in 2 * m .. 3 * m - 1
  <2>1. k % m = k - 2 * m
    BY <1>1, <1>4, ModFacts
  <2> QED
    BY <1>1, <1>4, <2>1
<1>5. CASE k \in 3 * m .. 3 * m + 1
  <2>1. k \in 3 * m .. 4 * m - 1
    BY <1>1, <1>5
  <2>2. k % m = k - 3 * m
    BY <1>1, <2>1, ModFacts
  <2> QED
    BY <1>1, <1>5, <2>2
<1> QED
  BY <1>1, <1>2, <1>3, <1>4, <1>5

-----------------------------------------------------------------------------
(* What the master does, state by state.                                   *)
Keeps == ep_setup' = ep_setup /\ UNCHANGED <<cbits, caddr, sdat>> /\ ctmp' = ctmp + 1

Drives == /\ ep_setup' = "e1" /\ ctmp' = 0 /\ caddr' = caddr
          /\ cbits' = cbits + 1 /\ sdat' = Table(caddr)[cbits + 1]

LEMMA MasterFacts ==
  ASSUME TypeInv, Master
  PROVE  /\ ep_setup = "e0" => IF ~down THEN Keeps
                               ELSE /\ ep_setup' = "e1" /\ ctmp' = HALF /\ sdat' = 0
                                    /\ UNCHANGED <<cbits, caddr>>
         /\ ep_setup = "e1" => IF ~down THEN Keeps
                               ELSE IF ~stop THEN Drives
                               ELSE /\ ep_setup' = "e2" /\ ctmp' = 0
                                    /\ UNCHANGED <<cbits, caddr, sdat>>
         /\ ep_setup = "e2" => IF ~up THEN ~down => Keeps
                               ELSE IF sda = 1
                               THEN /\ ep_setup' = "e0" /\ ctmp' = HALF /\ cbits' = 0
                                    /\ caddr' = 0 /\ sdat' = sdat
                               ELSE /\ ep_setup' = "e3" /\ ctmp' = HALF
                                    /\ UNCHANGED <<cbits, caddr, sdat>>
         /\ ep_setup = "e3" => IF ~down THEN Keeps
                               ELSE IF ~bit24 THEN Drives
                               ELSE /\ ep_setup' = "e4" /\ ctmp' = 0 /\ sdat' = 0
                                    /\ UNCHANGED <<cbits, caddr>>
         /\ ep_setup = "e4" => IF ~down THEN Keeps
                               ELSE IF ~lastaddr
                               THEN /\ ep_setup' = "e0" /\ ctmp' = HALF /\ cbits' = 0
                                    /\ caddr' = caddr + 1 /\ sdat' = 1
                               ELSE /\ ep_setup' = "e5" /\ ctmp' = 0 /\ sdat' = 1
                                    /\ UNCHANGED <<cbits, caddr>>
         /\ ep_setup = "e5" => UNCHANGED <<ep_setup, ctmp, cbits, caddr, sdat>>
<1>1. /\ ctmp = 2 * HALF - 1 => (ctmp + 1) % (2 * HALF) = 0
      /\ ctmp # 2 * HALF - 1 => (ctmp + 1) % (2 * HALF) = ctmp + 1
  BY TickFacts DEF TypeInv
<1>2. ctmp \in Nat /\ HALF \in Nat /\ HALF >= 2
  BY Sizes DEF TypeInv
<1> USE DEF Master, es_setup, settmp, incbits, setbit0, setbit1, claddr, refused,
            nextWord, CaddrNext, CbitsNext, Keeps, Drives, down, up
<1>3. ASSUME ep_setup = "e0"
      PROVE  IF ~down THEN Keeps
             ELSE /\ ep_setup' = "e1" /\ ctmp' = HALF /\ sdat' = 0
                  /\ UNCHANGED <<cbits, caddr>>
  BY <1>1, <1>2, <1>3
<1>4. ASSUME ep_setup = "e1"
      PROVE  IF ~down THEN Keeps
             ELSE IF ~stop THEN Drives
             ELSE /\ ep_setup' = "e2" /\ ctmp' = 0
                  /\ UNCHANGED <<cbits, caddr, sdat>>
  BY <1>1, <1>2, <1>4
<1>5. ASSUME ep_setup = "e2"
      PROVE  IF ~up THEN ~down => Keeps
             ELSE IF sda = 1
             THEN /\ ep_setup' = "e0" /\ ctmp' = HALF /\ cbits' = 0
                  /\ caddr' = 0 /\ sdat' = sdat
             ELSE /\ ep_setup' = "e3" /\ ctmp' = HALF
                  /\ UNCHANGED <<cbits, caddr, sdat>>
  BY <1>1, <1>2, <1>5
<1>6. ASSUME ep_setup = "e3"
      PROVE  IF ~down THEN Keeps
             ELSE IF ~bit24 THEN Drives
             ELSE /\ ep_setup' = "e4" /\ ctmp' = 0 /\ sdat' = 0
                  /\ UNCHANGED <<cbits, caddr>>
  BY <1>1, <1>2, <1>6
<1>7. ASSUME ep_setup = "e4"
      PROVE  IF ~down THEN Keeps
             ELSE IF ~lastaddr
             THEN /\ ep_setup' = "e0" /\ ctmp' = HALF /\ cbits' = 0
                  /\ caddr' = caddr + 1 /\ sdat' = 1
             ELSE /\ ep_setup' = "e5" /\ ctmp' = 0 /\ sdat' = 1
                  /\ UNCHANGED <<cbits, caddr>>
  BY <1>1, <1>2, <1>7
<1>8. ASSUME ep_setup = "e5" PROVE UNCHANGED <<ep_setup, ctmp, cbits, caddr, sdat>>
  BY <1>8
<1> QED
  BY <1>3, <1>4, <1>5, <1>6, <1>7, <1>8

(* What the codec does, by what the bus does.                              *)
Same == UNCHANGED <<mode, got, pull, taken>>

LEMMA CodecFacts ==
  ASSUME Codec
  PROVE  /\ sclk = 0 /\ sclk' = 0 => Same
         /\ High /\ sda' = sda => Same
         /\ High /\ sda = 1 /\ sda' = 0 =>
              mode' = "byte" /\ got' = <<>> /\ UNCHANGED <<pull, taken>>
         /\ High /\ sda = 0 /\ sda' = 1 =>
              mode' = "idle" /\ UNCHANGED <<got, pull, taken>>
         /\ Rises /\ mode = "byte" => TakeBit
         /\ Rises /\ mode # "byte" /\ ~Race => Same
         /\ Race => /\ \/ mode' = "byte" /\ got' = <<>>
                       \/ UNCHANGED <<mode, got>>
                    /\ UNCHANGED <<pull, taken>>
         /\ Falls /\ ByteDone => Accept \/ Refuse
         /\ Falls /\ mode = "accept" => Release
         /\ Falls /\ ~ByteDone /\ mode # "accept" => Same
<1> USE DEF Same, Race, ByteDone
<1>1. CASE Start
  BY <1>1 DEF Start, High, Rises, Falls
<1>2. CASE Stop
  BY <1>2 DEF Stop, High, Rises, Falls
<1>3. CASE TakeBit
  BY <1>3 DEF TakeBit, High, Rises, Falls
<1>4. CASE Accept
  BY <1>4 DEF Accept, High, Rises, Falls
<1>5. CASE Refuse
  BY <1>5 DEF Refuse, High, Rises, Falls
<1>6. CASE Release
  BY <1>6 DEF Release, High, Rises, Falls
<1>7. CASE Miss
  BY <1>7 DEF Miss, High, Rises, Falls
<1>8. CASE Quiet
  BY <1>8 DEF Quiet, High, Rises, Falls
<1> QED
  BY <1>1, <1>2, <1>3, <1>4, <1>5, <1>6, <1>7, <1>8 DEF Codec

(* A step that neither moves the codec nor leaves the state of the master, *)
(* in the same half of the period.                                         *)
LEMMA KeepsInv ==
  ASSUME Inv, Keeps, Same, ctmp # 2 * HALF - 1,
         ctmp # HALF - 1 \/ (ep_setup \in {"e1", "e2", "e3", "e4"} /\ mode # "byte"),
         ep_setup = "e2" => ctmp # HALF - 1, ep_setup # "e5"
  PROVE  Inv'
<1>1. /\ ctmp \in 0 .. 2 * HALF - 1 /\ ctmp' = ctmp + 1
      /\ ctmp' \in 0 .. 2 * HALF - 1
      /\ ctmp >= HALF => ctmp' >= HALF
      /\ ctmp # HALF - 1 => (ctmp' >= HALF <=> ctmp >= HALF)
  BY Sizes DEF Inv, TypeInv, Keeps
<1>2. /\ UNCHANGED <<ep_setup, cbits, caddr, sdat, mode, got, pull, taken>>
  BY DEF Keeps, Same
<1>3. TypeInv'
  BY <1>1, <1>2 DEF Inv, TypeInv
<1>4. PhaseInv'
  <2>1. /\ ep_setup = "e2" => ctmp' < HALF
        /\ ep_setup # "e5"
    BY <1>1, Sizes DEF Inv, PhaseInv
  <2> QED
    BY <1>1, <1>2, <2>1 DEF Inv, PhaseInv, stop, bit24
<1>5. CodecInv'
  <2>1. mode # "idle" => Clocked' = Clocked
    <3>1. CASE ctmp # HALF - 1
      BY <1>1, <1>2, <3>1 DEF Clocked
    <3>2. CASE mode = "accept"
      <4>1. ep_setup \in {"e2", "e3"}
        BY <3>2 DEF Inv, CodecInv
      <4> QED
        BY <1>2, <4>1 DEF Clocked
    <3> QED
      BY <3>1, <3>2 DEF Inv, TypeInv
  <2> QED
    BY <1>2, <2>1 DEF Inv, CodecInv, SoFar
<1>6. Words' /\ CountInv'
  BY <1>2 DEF Inv, Words, CountInv, bit24
<1> QED
  BY <1>3, <1>4, <1>5, <1>6 DEF Inv

(* The clock of the bus rises, or stays low, in a state with the data line *)
(* held: the codec may take a bit.                                         *)
LEMMA TakeInv ==
  ASSUME Inv, Keeps, TakeBit, ctmp = HALF - 1, mode = "byte",
         ep_setup \in {"e1", "e4"}
  PROVE  Inv'
<1>1. /\ ctmp' = HALF /\ HALF \in Nat /\ ctmp < HALF
      /\ ctmp' \in 0 .. 2 * HALF - 1
  BY Sizes DEF Inv, TypeInv, Keeps
<1>2. /\ UNCHANGED <<ep_setup, cbits, caddr, sdat, mode, pull, taken>>
      /\ got' = Append(got, sda')
  BY DEF Keeps, TakeBit
<1>3. cbits > 0
  BY <1>1, Sizes DEF Inv, PhaseInv, TypeInv, bit24
<1>4. sda' = sdat /\ sdat \in Bit
  BY <1>2 DEF Inv, TypeInv, CodecInv, sda, setbitz
<1>5. /\ got' \in Seq(Bit) /\ Len(got') = Len(got) + 1
      /\ \A b \in 1 .. Len(got) : got'[b] = got[b]
      /\ got'[Len(got) + 1] = sdat
  BY <1>2, <1>4, AppendProperties DEF Inv, TypeInv
<1>6. Len(got) \in Nat /\ cbits \in Nat
  BY Sizes, LenProperties DEF Inv, TypeInv
<1>7. TypeInv'
  BY <1>1, <1>2, <1>5 DEF Inv, TypeInv
<1>8. PhaseInv'
  BY <1>1, <1>2 DEF Inv, PhaseInv, stop, bit24
<1>9. Len(got') = Clocked'
  BY <1>1, <1>2, <1>3, <1>5, <1>6 DEF Inv, CodecInv, Clocked
<1>10. SoFar'
  <2>1. ep_setup = "e1" => Len(got) + 1 = cbits /\ sdat = Table(caddr)[cbits]
    BY <1>1, <1>3, <1>6 DEF Inv, CodecInv, PhaseInv, Clocked
  <2>2. ep_setup = "e4" => Len(got) = cbits
    BY <1>1, <1>6 DEF Inv, CodecInv, Clocked
  <2>3. \A b \in 1 .. cbits : b <= Len(got) => got[b] = Table(caddr)[b]
    BY DEF Inv, CodecInv, SoFar
  <2>4. ASSUME NEW b \in 1 .. cbits, b <= Len(got')
        PROVE  got'[b] = Table(caddr)[b]
    <3>1. CASE b <= Len(got)
      BY <1>5, <1>6, <2>3, <3>1
    <3>2. CASE b > Len(got)
      <4>1. b = Len(got) + 1
        BY <1>5, <1>6, <2>4, <3>2
      <4> QED
        BY <1>5, <1>6, <2>1, <2>2, <4>1
    <3> QED
      BY <1>6, <3>1, <3>2
  <2> QED
    BY <1>2, <2>4 DEF SoFar
<1>11. CodecInv'
  BY <1>2, <1>9, <1>10 DEF Inv, CodecInv
<1>12. Words' /\ CountInv'
  BY <1>2 DEF Inv, Words, CountInv, bit24
<1> QED
  BY <1>7, <1>8, <1>11, <1>12 DEF Inv

-----------------------------------------------------------------------------
(* The steps, by the state of the master they leave.                       *)
LEMMA Levels ==
  ASSUME TypeInv, ctmp' \in 0 .. 2 * HALF - 1
  PROVE  /\ sclk = 1 <=> ctmp >= HALF
         /\ sclk = 0 <=> ctmp < HALF
         /\ sclk' = 1 <=> ctmp' >= HALF
         /\ sclk' = 0 <=> ctmp' < HALF
<1>1. ctmp \in Int /\ ctmp' \in Int /\ HALF \in Int
  BY Sizes DEF TypeInv
<1> QED
  BY <1>1 DEF sclk

(* The clock stays high and the line as it was.                            *)
LEMMA HighInv ==
  ASSUME Inv, Keeps, Codec, ctmp >= HALF, ~down, ep_setup \in {"e0", "e1", "e3", "e4"}
  PROVE  Inv'
<1>1. /\ ctmp \in Int /\ HALF \in Int /\ ctmp' = ctmp + 1 /\ ctmp' >= HALF
      /\ ctmp # 2 * HALF - 1 /\ ctmp' \in 0 .. 2 * HALF - 1 /\ ctmp # HALF - 1
  BY Sizes DEF Inv, TypeInv, Keeps, down
<1>2. High
  BY <1>1, Levels DEF Inv, High
<1>3. pull' = pull
  BY <1>2, CodecFacts, Levels DEF High, Same, Start, Stop, TakeBit, Accept,
     Refuse, Release, Miss, Quiet, Codec, Falls
<1>4. sda' = sda
  BY <1>3 DEF Keeps, sda, setbitz
<1>5. Same
  BY <1>2, <1>4, CodecFacts
<1> QED
  BY <1>1, <1>5, KeepsInv

(* The clock stays low.                                                    *)
LEMMA LowInv ==
  ASSUME Inv, Keeps, Codec, ctmp < HALF - 1, ep_setup # "e5"
  PROVE  Inv'
<1>1. /\ ctmp \in Int /\ HALF \in Int /\ ctmp' = ctmp + 1 /\ ctmp' < HALF
      /\ ctmp < HALF /\ HALF >= 2
      /\ ctmp # 2 * HALF - 1 /\ ctmp' \in 0 .. 2 * HALF - 1 /\ ctmp # HALF - 1
  BY Sizes DEF Inv, TypeInv, Keeps
<1>2. sclk = 0 /\ sclk' = 0
  BY <1>1, Levels DEF Inv
<1>3. Same
  BY <1>2, CodecFacts
<1> QED
  BY <1>1, <1>3, KeepsInv

(* The clock rises in a word, or before the STOP.                          *)
LEMMA RiseInv ==
  ASSUME Inv, Keeps, Codec, ctmp = HALF - 1, ep_setup \in {"e1", "e4"}
  PROVE  Inv'
<1>1. /\ HALF \in Int /\ HALF >= 2 /\ ctmp' = HALF /\ ctmp < HALF
      /\ ctmp # 2 * HALF - 1 /\ ctmp' \in 0 .. 2 * HALF - 1
  BY Sizes DEF Inv, TypeInv, Keeps
<1>2. Rises
  BY <1>1, Levels DEF Inv, Rises
<1>3. CASE mode = "byte"
  <2>1. TakeBit
    BY <1>2, <1>3, CodecFacts
  <2> QED
    BY <1>3, <2>1, TakeInv
<1>4. CASE mode # "byte"
  <2>1. ~Race
    <3>1. pull' = pull
      BY <1>2 DEF Rises, Start, Stop, TakeBit, Accept, Refuse, Release, Miss,
         Quiet, Codec, Falls
    <3>2. sda' = sda
      BY <3>1 DEF Keeps, sda, setbitz
    <3> QED
      BY <3>2 DEF Race
  <2>2. Same
    BY <1>2, <1>4, <2>1, CodecFacts
  <2> QED
    BY <1>1, <1>4, <2>2, KeepsInv
<1> QED
  BY <1>3, <1>4

(* START, when the clock has been high for half a period.                  *)
LEMMA StepE0 == ASSUME Inv, Clock, ep_setup = "e0" PROVE Inv'
<1>1. /\ ctmp \in Int /\ HALF \in Int /\ HALF >= 2 /\ ctmp >= HALF
      /\ HALF \in 0 .. 2 * HALF - 1 /\ cbits = 0
  BY Sizes DEF Inv, TypeInv, PhaseInv
<1>2. IF ~down THEN Keeps
      ELSE /\ ep_setup' = "e1" /\ ctmp' = HALF /\ sdat' = 0
           /\ UNCHANGED <<cbits, caddr>>
  BY MasterFacts DEF Inv, Clock
<1>3. CASE ~down
  BY <1>1, <1>2, <1>3, HighInv DEF Clock
<1>4. CASE down
  <2>1. /\ ep_setup' = "e1" /\ ctmp' = HALF /\ sdat' = 0
        /\ UNCHANGED <<cbits, caddr>>
    BY <1>2, <1>4
  <2>2. High
    BY <1>1, <2>1, Levels DEF Inv, High
  <2>3. /\ pull' = pull /\ taken' = taken /\ pull = FALSE
        /\ mode \in {"idle", "byte"}
    BY <2>2 DEF Inv, TypeInv, CodecInv, High, Start, Stop, TakeBit, Accept,
       Refuse, Release, Miss, Quiet, Codec, Falls, Rises, Race, Clock
  <2>4. sda = sdat /\ sda' = 0
    BY <2>1, <2>3 DEF sda, setbitz
  <2>5. IF sdat = 1 THEN mode' = "byte" /\ got' = <<>>
                    ELSE mode' = mode /\ got' = got
    BY <2>2, <2>4, CodecFacts DEF Clock, Inv, TypeInv, Bit, Same
  <2>6. TypeInv'
    BY <1>1, <2>1, <2>3, <2>5, EmptySeq DEF Inv, TypeInv, Bit
  <2>7. PhaseInv'
    BY <1>1, <2>1 DEF PhaseInv
  <2>8. CodecInv'
    <3>1. mode' # "idle" => Len(got') = 0
      BY <2>3, <2>5, EmptySeq DEF Inv, CodecInv, Clocked
    <3>2. mode' # "idle" => Len(got') = Clocked' /\ SoFar'
      BY <1>1, <2>1, <3>1 DEF Clocked, SoFar
    <3>3. mode' = "idle" => taken' = <<>>
      BY <2>3, <2>5 DEF Inv, CodecInv
    <3>4. mode' \in {"idle", "byte"} /\ pull' = FALSE
      BY <2>3, <2>5
    <3> QED
      BY <2>1, <3>2, <3>3, <3>4 DEF CodecInv
  <2>9. Words' /\ CountInv'
    BY <2>1, <2>3 DEF Inv, Words, CountInv
  <2> QED
    BY <2>6, <2>7, <2>8, <2>9 DEF Inv
<1> QED
  BY <1>3, <1>4

(* The clock falls and the master drives the next bit.                     *)
LEMMA DrivesInv ==
  ASSUME Inv, Drives, ep_setup \in {"e1", "e3"}, cbits < 3 * ByteBits, taken' = taken,
         IF mode = "accept" THEN /\ mode' = "byte" /\ pull' = FALSE /\ got' = got
                                 /\ Len(taken) = caddr /\ Len(got) = cbits
         ELSE /\ ep_setup = "e1" /\ UNCHANGED <<mode, got, pull>> /\ Clocked = cbits
  PROVE  Inv'
<1>1. /\ cbits \in Nat /\ caddr \in 0 .. LADDR
      /\ cbits + 1 \in 0 .. 3 * ByteBits /\ cbits + 1 \in 1 .. 3 * ByteBits
      /\ HALF \in Int /\ HALF >= 2 /\ ByteBits \in Int /\ 0 \in 0 .. 2 * HALF - 1
  BY Sizes DEF Inv, TypeInv
<1>2. /\ ep_setup' = "e1" /\ ctmp' = 0 /\ caddr' = caddr /\ cbits' = cbits + 1
      /\ sdat' = Table(caddr)[cbits + 1] /\ got' = got
  BY DEF Drives
<1>3. sdat' \in Bit
  BY <1>1, <1>2, Sizes
<1>4. /\ mode' \in {"idle", "byte"} /\ pull' = FALSE
      /\ mode' = "idle" => mode = "idle" /\ ep_setup = "e1"
  BY DEF Inv, TypeInv, CodecInv
<1>5. TypeInv'
  BY <1>1, <1>2, <1>3, <1>4 DEF Inv, TypeInv
<1>6. PhaseInv'
  BY <1>1, <1>2 DEF PhaseInv
<1>7. CodecInv'
  <2>1. Clocked' = cbits
    BY <1>1, <1>2 DEF Clocked
  <2>2. mode # "idle" => Len(got) = cbits /\ SoFar
    BY DEF Inv, CodecInv
  <2>3. mode # "idle" => SoFar'
    <3>1. SUFFICES ASSUME mode # "idle", NEW b \in 1 .. cbits + 1, b <= Len(got)
                   PROVE  got[b] = Table(caddr)[b]
      BY <1>2 DEF SoFar
    <3>2. b \in 1 .. cbits
      BY <1>1, <2>2, <3>1
    <3> QED
      BY <2>2, <3>1, <3>2 DEF SoFar
  <2>4. mode' = "idle" => taken' = <<>>
    BY <1>4 DEF Inv, CodecInv
  <2> QED
    BY <1>2, <1>4, <2>1, <2>2, <2>3, <2>4 DEF CodecInv
<1>8. Words' /\ CountInv'
  BY <1>2 DEF Inv, Words, CountInv
<1> QED
  BY <1>5, <1>6, <1>7, <1>8 DEF Inv

(* The codec takes a word: it is the next one of the table.                *)
LEMMA AppendWord ==
  ASSUME Inv, caddr' = caddr, Len(taken) = caddr, taken' = Append(taken, got),
         Len(got) = 3 * ByteBits, cbits = 3 * ByteBits, SoFar
  PROVE  Words' /\ taken' \in Seq(Seq(Bit)) /\ Len(taken') = caddr + 1
<1>1. taken \in Seq(Seq(Bit)) /\ got \in Seq(Bit) /\ caddr \in 0 .. LADDR
  BY DEF Inv, TypeInv
<1>2. /\ taken' \in Seq(Seq(Bit)) /\ Len(taken') = caddr + 1
      /\ \A i \in 1 .. caddr : taken'[i] = taken[i]
      /\ taken'[caddr + 1] = got
  BY <1>1, AppendProperties
<1>3. ASSUME NEW i \in 1 .. caddr + 1
      PROVE  /\ i - 1 <= LADDR
             /\ \A b \in 1 .. 3 * ByteBits : taken'[i][b] = Table(i - 1)[b]
  <2>1. CASE i \in 1 .. caddr
    BY <1>2, <2>1 DEF Inv, Words
  <2>2. CASE i = caddr + 1
    <3>1. i - 1 = caddr /\ caddr <= LADDR /\ taken'[i] = got
      BY <1>1, <1>2, <2>2, Sizes
    <3>2. \A b \in 1 .. 3 * ByteBits : got[b] = Table(caddr)[b]
      BY Sizes DEF SoFar
    <3> QED
      BY <3>1, <3>2
  <2>3. caddr \in Nat
    BY <1>1, Sizes
  <2> QED
    BY <2>1, <2>2, <2>3
<1> QED
  BY <1>2, <1>3 DEF Words

(* A bit, or the end of a byte.                                            *)
LEMMA StepE1 == ASSUME Inv, Clock, ep_setup = "e1" PROVE Inv'
<1>1. /\ ctmp \in Int /\ HALF \in Int /\ HALF >= 2 /\ 0 \in 0 .. 2 * HALF - 1
      /\ cbits \in 0 .. 3 * ByteBits /\ ByteBits \in Int /\ ByteBits >= 2
  BY Sizes DEF Inv, TypeInv
<1>2. /\ mode \in {"idle", "byte"} /\ pull = FALSE
      /\ mode = "idle" => taken = <<>>
      /\ mode = "byte" => Len(got) = Clocked /\ SoFar
      /\ Len(taken) = caddr /\ got \in Seq(Bit) /\ taken \in Seq(Seq(Bit))
  BY DEF Inv, TypeInv, CodecInv, CountInv
<1>3. IF ~down THEN Keeps
      ELSE IF ~stop THEN Drives
      ELSE /\ ep_setup' = "e2" /\ ctmp' = 0 /\ UNCHANGED <<cbits, caddr, sdat>>
  BY MasterFacts DEF Inv, Clock
<1>4. CASE ~down
  <2>1. ctmp >= HALF \/ ctmp < HALF - 1 \/ ctmp = HALF - 1
    BY <1>1
  <2> QED
    BY <1>3, <1>4, <2>1, HighInv, LowInv, RiseInv DEF Clock
<1>5. CASE down
  <2>1. ctmp >= HALF /\ ctmp' = 0 /\ Clocked = cbits
    BY <1>1, <1>3, <1>5 DEF down, Drives, Clocked
  <2>2. Falls
    BY <1>1, <2>1, Levels DEF Inv, Falls
  <2>3. mode = "byte" => (ByteDone <=> stop)
    <3>1. SUFFICES ASSUME mode = "byte" PROVE ByteDone <=> stop
      OBVIOUS
    <3>2. Len(got) = cbits /\ cbits \in 0 .. 3 * ByteBits + 1
      BY <1>1, <1>2, <2>1, <3>1
    <3>3. got = <<>> <=> cbits = 0
      BY <1>2, <3>2, EmptySeq
    <3>4. cbits % ByteBits = 0
            <=> cbits \in {0, ByteBits, 2 * ByteBits, 3 * ByteBits}
      BY <3>2, ByteFacts
    <3> QED
      BY <1>1, <3>1, <3>2, <3>3, <3>4 DEF ByteDone, stop
  <2>4. CASE ~stop
    <3>1. ~ByteDone
      BY <1>2, <2>3, <2>4 DEF ByteDone
    <3>2. Same
      BY <1>2, <2>2, <3>1, CodecFacts DEF Clock
    <3>3. cbits < 3 * ByteBits
      BY <1>1, <2>4 DEF stop
    <3> QED
      BY <1>2, <1>3, <1>5, <2>1, <2>4, <3>2, <3>3, DrivesInv DEF Same
  <2>5. CASE stop
    <3>1. /\ ep_setup' = "e2" /\ ctmp' = 0 /\ UNCHANGED <<cbits, caddr, sdat>>
      BY <1>3, <1>5, <2>5
    <3>2. PhaseInv'
      BY <1>1, <2>5, <3>1 DEF PhaseInv, stop
    <3>3. \/ mode = "idle" /\ Same
          \/ mode = "byte" /\ Accept
          \/ mode = "byte" /\ Refuse
      BY <1>2, <2>2, <2>3, <2>5, CodecFacts DEF Clock, ByteDone
    <3>4. CASE mode = "byte" /\ Accept
      <4>1. /\ mode' = "accept" /\ pull' = TRUE /\ got' = got
            /\ taken' = IF Len(got) = 3 * ByteBits THEN Append(taken, got)
                                                   ELSE taken
            /\ Len(got) = cbits /\ SoFar
        BY <1>2, <2>1, <3>4 DEF Accept
      <4>2. /\ Words' /\ taken' \in Seq(Seq(Bit))
            /\ Len(taken') = IF cbits = 3 * ByteBits THEN caddr + 1 ELSE caddr
        <5>1. CASE cbits = 3 * ByteBits
          BY <1>2, <3>1, <4>1, <5>1, AppendWord
        <5>2. CASE cbits # 3 * ByteBits
          BY <1>2, <4>1, <5>2 DEF Inv, Words
        <5> QED
          BY <5>1, <5>2
      <4>3. TypeInv'
        BY <1>1, <3>1, <4>1, <4>2 DEF Inv, TypeInv
      <4>4. CodecInv'
        <5>1. Len(got') = Clocked' /\ SoFar'
          BY <3>1, <4>1 DEF Clocked, SoFar
        <5> QED
          BY <3>1, <4>1, <5>1 DEF CodecInv
      <4>5. CountInv'
        BY <3>1, <4>1, <4>2 DEF CountInv, bit24
      <4> QED
        BY <3>2, <4>2, <4>3, <4>4, <4>5 DEF Inv
    <3>5. CASE (mode = "idle" /\ Same) \/ (mode = "byte" /\ Refuse)
      <4>1. mode' = "idle" /\ pull' = FALSE /\ got' = got /\ taken' = <<>>
        BY <1>2, <3>5 DEF Same, Refuse
      <4>2. taken' \in Seq(Seq(Bit)) /\ Len(taken') = 0
        BY <4>1, EmptySeq
      <4>3. TypeInv'
        BY <1>1, <3>1, <4>1, <4>2 DEF Inv, TypeInv
      <4>4. CodecInv'
        BY <3>1, <4>1 DEF CodecInv
      <4>5. Words' /\ CountInv'
        BY <3>1, <4>1, <4>2 DEF Words, CountInv
      <4> QED
        BY <3>2, <4>3, <4>4, <4>5 DEF Inv
    <3> QED
      BY <3>3, <3>4, <3>5
  <2> QED
    BY <2>4, <2>5
<1> QED
  BY <1>4, <1>5

(* The clock rises on the bit in which the codec accepts the byte, or not. *)
LEMMA StepE2 == ASSUME Inv, Clock, ep_setup = "e2" PROVE Inv'
<1>1. /\ ctmp \in Int /\ HALF \in Int /\ HALF >= 2 /\ ctmp < HALF
      /\ HALF \in 0 .. 2 * HALF - 1 /\ stop /\ 0 \in 0 .. LADDR
      /\ ByteBits \in Int /\ ByteBits >= 2 /\ 0 \in 0 .. 3 * ByteBits
  BY Sizes DEF Inv, TypeInv, PhaseInv
<1>2. /\ mode \in {"idle", "accept"} /\ (pull <=> mode = "accept")
      /\ mode = "idle" => taken = <<>> /\ ~pull
      /\ sda = IF pull THEN 0 ELSE 1
  BY DEF Inv, TypeInv, CodecInv, sda, setbitz
<1>3. IF ~up THEN ~down => Keeps
      ELSE IF sda = 1
      THEN /\ ep_setup' = "e0" /\ ctmp' = HALF /\ cbits' = 0
           /\ caddr' = 0 /\ sdat' = sdat
      ELSE /\ ep_setup' = "e3" /\ ctmp' = HALF
           /\ UNCHANGED <<cbits, caddr, sdat>>
  BY MasterFacts DEF Inv, Clock
<1>4. CASE ~up
  <2>1. ctmp < HALF - 1 /\ ~down
    BY <1>1, <1>4 DEF up, down
  <2> QED
    BY <1>3, <1>4, <2>1, LowInv DEF Clock
<1>5. CASE up
  <2>1. ctmp' = HALF
    BY <1>3, <1>5
  <2>2. Rises
    BY <1>1, <2>1, Levels DEF Inv, Rises
  <2>3. CASE sda = 1
    <3>1. /\ ep_setup' = "e0" /\ ctmp' = HALF /\ cbits' = 0
          /\ caddr' = 0 /\ sdat' = sdat
      BY <1>3, <1>5, <2>3
    <3>2. mode = "idle" /\ pull = FALSE /\ taken = <<>>
      BY <1>2, <2>3 DEF Inv, TypeInv
    <3>3. /\ \/ Race /\ mode' = "byte" /\ got' = <<>>
             \/ UNCHANGED <<mode, got>>
          /\ UNCHANGED <<pull, taken>>
      BY <2>2, <3>2, CodecFacts DEF Clock, Same
    <3>4. Race => sdat' = 0
      BY <3>1, <3>2, <3>3 DEF Race, sda, setbitz
    <3>5. taken' \in Seq(Seq(Bit)) /\ Len(taken') = 0
      BY <3>2, <3>3, EmptySeq
    <3>6. TypeInv'
      <4>1. got' \in Seq(Bit) /\ mode' \in {"idle", "byte"}
        BY <3>2, <3>3, EmptySeq DEF Inv, TypeInv
      <4> QED
        BY <1>1, <3>1, <3>2, <3>3, <3>5, <4>1 DEF Inv, TypeInv
    <3>7. PhaseInv'
      BY <1>1, <3>1 DEF PhaseInv
    <3>8. CodecInv'
      <4>1. mode' # "idle" => Len(got') = Clocked' /\ SoFar' /\ sdat' = 0
        BY <3>1, <3>2, <3>3, <3>4, EmptySeq DEF Clocked, SoFar
      <4> QED
        BY <3>1, <3>2, <3>3, <4>1 DEF CodecInv
    <3>9. Words' /\ CountInv'
      BY <3>1, <3>5 DEF Words, CountInv
    <3> QED
      BY <3>6, <3>7, <3>8, <3>9 DEF Inv
  <2>4. CASE sda # 1
    <3>1. /\ ep_setup' = "e3" /\ ctmp' = HALF /\ UNCHANGED <<cbits, caddr, sdat>>
      BY <1>3, <1>5, <2>4
    <3>2. mode = "accept"
      BY <1>2, <2>4
    <3>3. Same
      BY <2>2, <3>2, CodecFacts DEF Clock, Race
    <3>4. TypeInv'
      BY <1>1, <3>1, <3>3 DEF Inv, TypeInv, Same
    <3>5. PhaseInv'
      BY <1>1, <3>1 DEF PhaseInv, stop
    <3>6. CodecInv'
      <4>1. Len(got') = Clocked' /\ SoFar'
        BY <3>1, <3>2, <3>3 DEF Inv, CodecInv, Clocked, SoFar, Same
      <4> QED
        BY <3>1, <3>2, <3>3, <4>1 DEF Inv, CodecInv, Same
    <3>7. Words' /\ CountInv'
      BY <3>1, <3>2, <3>3 DEF Inv, Words, CountInv, Same, bit24
    <3> QED
      BY <3>4, <3>5, <3>6, <3>7 DEF Inv
  <2> QED
    BY <2>3, <2>4
<1> QED
  BY <1>4, <1>5

(* The codec lets go of the line: the next byte, or the end of the word.   *)
LEMMA StepE3 == ASSUME Inv, Clock, ep_setup = "e3" PROVE Inv'
<1>1. /\ ctmp \in Int /\ HALF \in Int /\ HALF >= 2 /\ ctmp >= HALF
      /\ 0 \in 0 .. 2 * HALF - 1 /\ ByteBits \in Int
      /\ cbits \in 0 .. 3 * ByteBits
  BY Sizes DEF Inv, TypeInv, PhaseInv
<1>2. /\ mode = "accept" /\ Len(got) = cbits /\ SoFar
      /\ Len(taken) = IF bit24 THEN caddr + 1 ELSE caddr
  BY DEF Inv, TypeInv, CodecInv, CountInv, Clocked
<1>3. IF ~down THEN Keeps
      ELSE IF ~bit24 THEN Drives
      ELSE /\ ep_setup' = "e4" /\ ctmp' = 0 /\ sdat' = 0 /\ UNCHANGED <<cbits, caddr>>
  BY MasterFacts DEF Inv, Clock
<1>4. CASE ~down
  BY <1>1, <1>3, <1>4, HighInv DEF Clock
<1>5. CASE down
  <2>1. ctmp' = 0
    BY <1>3, <1>5 DEF Drives
  <2>2. Falls
    BY <1>1, <2>1, Levels DEF Inv, Falls
  <2>3. mode' = "byte" /\ pull' = FALSE /\ UNCHANGED <<got, taken>>
    BY <1>2, <2>2, CodecFacts DEF Clock, Release
  <2>4. CASE ~bit24
    <3>1. cbits < 3 * ByteBits
      BY <1>1, <2>4 DEF bit24
    <3> QED
      BY <1>2, <1>3, <1>5, <2>3, <2>4, <3>1, DrivesInv
  <2>5. CASE bit24
    <3>1. ep_setup' = "e4" /\ ctmp' = 0 /\ sdat' = 0 /\ UNCHANGED <<cbits, caddr>>
      BY <1>3, <1>5, <2>5
    <3>2. TypeInv'
      BY <1>1, <2>3, <3>1 DEF Inv, TypeInv, Bit
    <3>3. PhaseInv'
      BY <2>5, <3>1 DEF PhaseInv, bit24
    <3>4. Len(got') = Clocked' /\ SoFar'
      BY <1>1, <1>2, <2>3, <3>1 DEF Clocked, SoFar
    <3>5. CodecInv'
      BY <2>3, <3>1, <3>4 DEF CodecInv
    <3>6. Words' /\ CountInv'
      BY <1>2, <2>3, <2>5, <3>1 DEF Inv, Words, CountInv
    <3> QED
      BY <3>2, <3>3, <3>5, <3>6 DEF Inv
  <2> QED
    BY <2>4, <2>5
<1> QED
  BY <1>4, <1>5

(* STOP, or, after the last word, the end.                                 *)
LEMMA StepE4 == ASSUME Inv, Clock, ep_setup = "e4" PROVE Inv'
<1>1. /\ ctmp \in Int /\ HALF \in Int /\ HALF >= 2
      /\ 0 \in 0 .. 2 * HALF - 1 /\ HALF \in 0 .. 2 * HALF - 1
      /\ ByteBits \in Int /\ ByteBits >= 2 /\ 0 \in 0 .. 3 * ByteBits
      /\ LADDR \in Nat /\ caddr \in 0 .. LADDR
  BY Sizes DEF Inv, TypeInv
<1>2. /\ mode = "byte" /\ pull = FALSE /\ Len(got) = Clocked /\ SoFar
      /\ Len(taken) = caddr + 1 /\ sdat = 0 /\ cbits = 3 * ByteBits
  BY DEF Inv, TypeInv, PhaseInv, CodecInv, CountInv, bit24
<1>3. IF ~down THEN Keeps
      ELSE IF ~lastaddr
      THEN /\ ep_setup' = "e0" /\ ctmp' = HALF /\ cbits' = 0
           /\ caddr' = caddr + 1 /\ sdat' = 1
      ELSE /\ ep_setup' = "e5" /\ ctmp' = 0 /\ sdat' = 1 /\ UNCHANGED <<cbits, caddr>>
  BY MasterFacts DEF Inv, Clock
<1>4. CASE ~down
  <2>1. ctmp >= HALF \/ ctmp < HALF - 1 \/ ctmp = HALF - 1
    BY <1>1
  <2> QED
    BY <1>3, <1>4, <2>1, HighInv, LowInv, RiseInv DEF Clock
<1>5. CASE down /\ ~lastaddr
  <2>1. /\ ep_setup' = "e0" /\ ctmp' = HALF /\ cbits' = 0
        /\ caddr' = caddr + 1 /\ sdat' = 1 /\ ctmp >= HALF
    BY <1>1, <1>3, <1>5 DEF down
  <2>2. High
    BY <1>1, <2>1, Levels DEF Inv, High
  <2>3. pull' = pull
    BY <2>2 DEF High, Start, Stop, TakeBit, Accept, Refuse, Release, Miss,
       Quiet, Codec, Falls, Rises, Race, Clock
  <2>4. sda = 0 /\ sda' = 1
    BY <1>2, <2>1, <2>3 DEF sda, setbitz
  <2>5. mode' = "idle" /\ UNCHANGED <<got, pull, taken>>
    BY <2>2, <2>4, CodecFacts DEF Clock
  <2>6. caddr + 1 \in 0 .. LADDR
    BY <1>1, <1>5 DEF lastaddr
  <2>7. TypeInv'
    BY <1>1, <2>1, <2>5, <2>6 DEF Inv, TypeInv, Bit
  <2>8. PhaseInv'
    BY <1>1, <2>1 DEF PhaseInv
  <2>9. CodecInv'
    BY <1>2, <2>1, <2>5 DEF CodecInv
  <2>10. Words' /\ CountInv'
    BY <1>2, <2>1, <2>5 DEF Inv, Words, CountInv
  <2> QED
    BY <2>7, <2>8, <2>9, <2>10 DEF Inv
<1>6. CASE down /\ lastaddr
  <2>1. /\ ep_setup' = "e5" /\ ctmp' = 0 /\ sdat' = 1 /\ UNCHANGED <<cbits, caddr>>
        /\ ctmp >= HALF
    BY <1>1, <1>3, <1>6 DEF down
  <2>2. Falls
    BY <1>1, <2>1, Levels DEF Inv, Falls
  <2>3. ~ByteDone
    <3>1. Len(got) = 3 * ByteBits + 1
      BY <1>2, <2>1 DEF Clocked
    <3>2. Len(got) \in 0 .. 3 * ByteBits + 1
      BY <1>1, <3>1
    <3>3. Len(got) \notin {0, ByteBits, 2 * ByteBits, 3 * ByteBits}
      BY <1>1, <3>1
    <3> QED
      BY <3>2, <3>3, ByteFacts DEF ByteDone
  <2>4. Same
    BY <1>2, <2>2, <2>3, CodecFacts DEF Clock
  <2>5. TypeInv'
    BY <1>1, <2>1, <2>4 DEF Inv, TypeInv, Same, Bit
  <2>6. PhaseInv'
    BY <2>1 DEF PhaseInv
  <2>7. CodecInv'
    <3>1. Len(got') = Clocked' /\ SoFar'
      BY <1>2, <2>1, <2>4 DEF Clocked, SoFar, Same
    <3> QED
      BY <1>2, <2>1, <2>4, <3>1 DEF CodecInv, Same
  <2>8. Words' /\ CountInv'
    BY <1>2, <1>6, <2>1, <2>4 DEF Inv, Words, CountInv, Same, lastaddr
  <2> QED
    BY <2>5, <2>6, <2>7, <2>8 DEF Inv
<1> QED
  BY <1>4, <1>5, <1>6

(* Nothing moves any more.                                                 *)
LEMMA StepE5 == ASSUME Inv, Clock, ep_setup = "e5" PROVE Inv'
<1>1. UNCHANGED <<ep_setup, ctmp, cbits, caddr, sdat>>
  BY MasterFacts DEF Inv, Clock
<1>2. sclk = 0 /\ sclk' = 0
  BY <1>1, Levels, Sizes DEF Inv, TypeInv, PhaseInv
<1>3. Same
  BY <1>2, CodecFacts DEF Clock
<1> QED
  BY <1>1, <1>3 DEF Inv, TypeInv, PhaseInv, CodecInv, CountInv, Words, Clocked,
     SoFar, Same, stop, bit24

(* The set-up is always as Inv says.                                       *)
THEOREM SetupInvariant == SetupSpec => []Inv
<1>1. SetupInit => Inv
  <2>1. SUFFICES ASSUME SetupInit PROVE Inv
    OBVIOUS
  <2>2. /\ HALF \in 0 .. 2 * HALF - 1 /\ 0 \in 0 .. LADDR /\ HALF >= HALF
        /\ 0 \in 0 .. 3 * ByteBits
    BY Sizes
  <2>3. TypeInv
    BY <2>1, <2>2, EmptySeq DEF SetupInit, TypeInv, Bit
  <2>4. Words /\ CountInv
    BY <2>1, EmptySeq DEF SetupInit, Words, CountInv
  <2> QED
    BY <2>1, <2>2, <2>3, <2>4 DEF SetupInit, Inv, PhaseInv, CodecInv
<1>2. Inv /\ [Clock]_setupVars => Inv'
  <2>1. CASE Inv /\ Clock
    BY <2>1, StepE0, StepE1, StepE2, StepE3, StepE4, StepE5 DEF Inv, TypeInv
  <2>2. CASE Inv /\ UNCHANGED setupVars
    BY <2>2 DEF setupVars, Inv, TypeInv, PhaseInv, CodecInv, CountInv, Words,
       Clocked, SoFar, stop, bit24
  <2> QED
    BY <2>1, <2>2
<1> QED
  BY <1>1, <1>2, PTL DEF SetupSpec

(* The words the codec took since it last refused a byte are those of the  *)
(* table, from the first one on, in order and bit by bit; the master stops *)
(* (au_setup.vhd, e5) only when it took all of them.                       *)
THEOREM SetupInOrder == SetupSpec => []WordsInOrder
<1>1. Inv => WordsInOrder
  BY DEF Inv, Words, CountInv, WordsInOrder
<1> QED
  BY <1>1, SetupInvariant, PTL
=============================================================================
