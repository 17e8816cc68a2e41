------------------------- MODULE SoundModuleProofs -------------------------
(***************************************************************************)
(* The sound module implements Tone, for every width of the sample, every  *)
(* table of sines and of increments, and every codec whose clocks stay at  *)
(* a level for two cycles or more and whose frames have room for the       *)
(* sample, however its clocks drift.                                       *)
(*                                                                         *)
(* The argument is about where the codec's clocks are in each state of     *)
(* UCau_out.  LagInv says so for the time in which daclrc is low, after a  *)
(* reset too: it shows that the state machine waits for daclrc whenever a  *)
(* frame begins.  From then on AlignedInv knows the very bit.  WordInv     *)
(* says what is in the shift register, ReadInv what the codec has of it.   *)
(***************************************************************************)
EXTENDS SoundModule, TLAPS, SequenceTheorems

(* The bits of the word shifted out. *)
done == WIDTH - 1 - value_cont

(* The first cycle of a level of daclrc. *)
Starts == slot = 0 /\ bclk = 0 /\ level = 1

TypeInv ==
  /\ setting \in Setting
  /\ Q \in 0 .. Phases - 1
  /\ ep_out \in SoundStates
  /\ sample_aux \in Bits
  /\ value_cont \in 0 .. WIDTH - 1
  /\ bclk \in {0, 1} /\ daclrc \in {0, 1}
  /\ level \in 1 .. MaxHalf /\ slot \in 0 .. BitsPerChannel - 1
  /\ left \in Seq({0, 1}) /\ right \in Seq({0, 1})
  /\ loaded \in Bits \cup {<<>>}
  /\ dirty \in BOOLEAN

(* UCau_out is not behind the bits of the right channel, nor, waiting for  *)
(* daclrc, past its edge.                                                  *)
LagInv ==
  /\ ep_out = "e1" /\ daclrc = 0 => Starts
  /\ ep_out = "e2" => value_cont = WIDTH - 1
  /\ ep_out = "e2" /\ daclrc = 0 => slot = 0 /\ bclk = 0
  /\ ep_out = "e3" /\ daclrc = 0 => slot <= done
  /\ ep_out = "e4" /\ bclk = 0 => level = 1
  /\ ep_out = "e4" /\ daclrc = 0 => slot <= done + 1 - bclk
  /\ ep_out = "e5" => bclk = 0 /\ level = 2
  /\ ep_out = "e5" /\ daclrc = 0 => slot <= done + 1
  /\ ep_out = "e6" /\ daclrc = 1 => Starts
  /\ ep_out = "e7" /\ daclrc = 0 => Starts

(* Once a frame has begun, the bit shifted is the bit of the codec. *)
AlignedInv ==
  ~dirty =>
    /\ ep_out = "e0" => daclrc = 1 /\ Starts
    /\ ep_out = "e1" => daclrc = 1 /\ slot = 0 /\ bclk = 0 /\ level = 2
    /\ ep_out = "e2" => slot = 0 /\ (bclk = 1 => level = 1)
    /\ ep_out = "e3" => slot = done
    /\ ep_out = "e4" => slot = done + 1 - bclk
    /\ ep_out = "e5" => slot = done + 1
    /\ ep_out = "e6" /\ daclrc = 0 => slot >= WIDTH /\ value_cont = WIDTH - 1
    /\ ep_out = "e7" => value_cont = WIDTH - 1
    /\ ep_out = "e7" /\ daclrc = 1 => slot >= WIDTH

(* The sample of this frame is still to be taken. *)
Awaited == ep_out \in {"e0", "e1"} \/ (ep_out = "e6" /\ daclrc = 1)

(* Where bit i of a word turned by n bits comes from. *)
Turned(i, n) == IF i + n <= WIDTH THEN i + n ELSE i + n - WIDTH

WordInv ==
  /\ dirty => loaded = <<>>
  /\ ~dirty /\ Awaited => loaded = <<>>
  /\ ~dirty /\ ~Awaited =>
       /\ loaded \in Bits
       /\ \A i \in 1 .. WIDTH : sample_aux[i] = loaded[Turned(i, done)]

(* The first n bits of the sample are in word. *)
Holds(word, n) == Len(word) = n /\ \A i \in 1 .. n : word[i] = loaded[i]

(* How many bits the codec has taken in this level of daclrc. *)
bitsRead == IF slot + bclk <= WIDTH THEN slot + bclk ELSE WIDTH

ReadInv ==
  /\ dirty => left = <<>> /\ right = <<>>
  /\ ~dirty /\ daclrc = 1 /\ ~Starts => Holds(left, bitsRead) /\ right = <<>>
  /\ ~dirty /\ daclrc = 0 => Holds(left, WIDTH) /\ Holds(right, bitsRead)

SoundInv == TypeInv /\ LagInv /\ AlignedInv /\ WordInv /\ ReadInv

-----------------------------------------------------------------------------
(* Constants, the registers and the clocks.                                *)

LEMMA Sizes ==
  /\ WIDTH \in Nat /\ WIDTH >= 2
  /\ BitsPerChannel \in Nat /\ BitsPerChannel > WIDTH
  /\ MinHalf \in Nat /\ MinHalf >= 2 /\ MaxHalf \in Nat /\ MaxHalf >= MinHalf
  /\ Phases \in Nat /\ Phases >= 1
BY SoundAssumption

LEMMA ModFacts ==
  ASSUME NEW m \in Nat \ {0}, NEW x \in Int
  PROVE  /\ x % m \in 0 .. m - 1
         /\ x \in 0 .. m - 1 => x % m = x
         /\ x = m => x % m = 0
         /\ x = -1 => x % m = m - 1
OBVIOUS

LEMMA SilenceIsBits == Silence \in Bits
BY DEF Silence, Bits

LEMMA SampleIsBits == TypeInv => sample \in Bits
<1> SUFFICES ASSUME TypeInv PROVE sample \in Bits
  OBVIOUS
<1>1. setting.vel \in Velocities /\ Q \in 0 .. Phases - 1
  BY DEF TypeInv, Setting
<1>2. Wave(Q \div Low, setting.vel) \in Bits
  BY <1>1, SoundAssumption
<1> QED
  BY <1>2, SilenceIsBits DEF sample

(* A word shifted by one bit. *)
LEMMA RotatedFacts ==
  ASSUME NEW word \in Bits
  PROVE  /\ Rotated(word) \in Bits
         /\ \A i \in 1 .. WIDTH :
              Rotated(word)[i] = word[IF i = WIDTH THEN 1 ELSE i + 1]
<1>1. \A i \in 1 .. WIDTH : i % WIDTH = IF i = WIDTH THEN 0 ELSE i
  <2>1. TAKE i \in 1 .. WIDTH
  <2>2. WIDTH \in Nat \ {0} /\ i \in Int
    BY Sizes
  <2>3. i = WIDTH => i % WIDTH = 0
    BY <2>2, ModFacts
  <2>4. i # WIDTH => i % WIDTH = i
    <3>1. i # WIDTH => i \in 0 .. WIDTH - 1
      BY Sizes
    <3> QED
      BY <2>2, <3>1, ModFacts
  <2> QED
    BY <2>3, <2>4
<1>2. \A i \in 1 .. WIDTH :
        /\ (i % WIDTH) + 1 = IF i = WIDTH THEN 1 ELSE i + 1
        /\ (i % WIDTH) + 1 \in 1 .. WIDTH
  BY <1>1, Sizes
<1>3. \A i \in 1 .. WIDTH : word[i] \in {0, 1}
  BY DEF Bits
<1>4. Rotated(word) \in Bits
  BY <1>2, <1>3 DEF Rotated, Bits
<1> QED
  BY <1>2, <1>4 DEF Rotated

(* The clocks of the codec in one step. *)
LEMMA ClockFacts ==
  ASSUME TypeInv, Stay \/ Rise \/ Fall
  PROVE  /\ bclk' \in {0, 1} /\ daclrc' \in {0, 1}
         /\ level' \in 1 .. MaxHalf /\ slot' \in 0 .. BitsPerChannel - 1
         /\ \/ /\ level' = level + 1
               /\ bclk' = bclk /\ daclrc' = daclrc /\ slot' = slot
            \/ /\ level >= 2 /\ bclk = 0 /\ bclk' = 1 /\ level' = 1
               /\ daclrc' = daclrc /\ slot' = slot
            \/ /\ level >= 2 /\ bclk = 1 /\ bclk' = 0 /\ level' = 1
               /\ IF slot = BitsPerChannel - 1
                  THEN slot' = 0 /\ daclrc' = 1 - daclrc
                  ELSE slot' = slot + 1 /\ daclrc' = daclrc
<1>1. CASE Stay
  BY <1>1, Sizes DEF TypeInv, Stay
<1>2. CASE Rise
  BY <1>2, Sizes DEF TypeInv, Rise
<1>3. CASE Fall
  <2>1. slot + 1 \in Int /\ BitsPerChannel \in Nat \ {0}
    BY Sizes DEF TypeInv
  <2>2. slot' = IF slot = BitsPerChannel - 1 THEN 0 ELSE slot + 1
    <3>1. slot = BitsPerChannel - 1 => (slot + 1) % BitsPerChannel = 0
      BY <2>1, ModFacts
    <3>2. slot # BitsPerChannel - 1
            => (slot + 1) % BitsPerChannel = slot + 1
      <4>1. slot # BitsPerChannel - 1 => slot + 1 \in 0 .. BitsPerChannel - 1
        BY <2>1 DEF TypeInv
      <4> QED
        BY <2>1, <4>1, ModFacts
    <3> QED
      BY <1>3, <3>1, <3>2 DEF Fall
  <2> QED
    BY <1>3, <2>2, Sizes DEF TypeInv, Fall
<1> QED
  BY <1>1, <1>2, <1>3

(* The registers of the module in one step. *)
LEMMA EdgeFacts ==
  ASSUME TypeInv, SoundEdge
  PROVE  /\ ep_out' = es_out /\ ep_out' \in SoundStates
         /\ sample_aux' \in Bits /\ Q' \in 0 .. Phases - 1
         /\ setting' \in Setting /\ value_cont' \in 0 .. WIDTH - 1
         /\ value_cont' = IF es_out = "e2" THEN WIDTH - 1
                          ELSE IF ep_out # "e5" THEN value_cont
                          ELSE IF value_cont = 0 THEN WIDTH - 1
                          ELSE value_cont - 1
<1>1. ep_out' = es_out /\ es_out \in SoundStates
  BY DEF TypeInv, SoundEdge, SoundStates, es_out
<1>2. sample_aux' \in Bits
  BY SampleIsBits, RotatedFacts DEF TypeInv, SoundEdge
<1>3. Q' \in 0 .. Phases - 1
  <2>1. delta(setting.key) \in Int
    BY SoundAssumption DEF TypeInv, Setting, delta
  <2>2. (Q + delta(setting.key)) % Phases \in 0 .. Phases - 1
    <3>1. Q + delta(setting.key) \in Int /\ Phases \in Nat \ {0}
      BY <2>1, Sizes DEF TypeInv
    <3> QED
      BY <3>1, ModFacts
  <2> QED
    BY <2>2 DEF TypeInv, SoundEdge
<1>4. (value_cont - 1) % WIDTH
        = IF value_cont = 0 THEN WIDTH - 1 ELSE value_cont - 1
  <2>1. value_cont - 1 \in Int /\ WIDTH \in Nat \ {0}
    BY Sizes DEF TypeInv
  <2>2. value_cont = 0 => value_cont - 1 = -1
    OBVIOUS
  <2>3. value_cont # 0 => value_cont - 1 \in 0 .. WIDTH - 1
    BY Sizes DEF TypeInv
  <2> QED
    BY <2>1, <2>2, <2>3, ModFacts
<1>5. value_cont' = IF es_out = "e2" THEN WIDTH - 1
                    ELSE IF ep_out # "e5" THEN value_cont
                    ELSE IF value_cont = 0 THEN WIDTH - 1
                    ELSE value_cont - 1
  BY <1>4 DEF SoundEdge
<1>6. value_cont' \in 0 .. WIDTH - 1
  BY <1>5, Sizes DEF TypeInv
<1> QED
  BY <1>1, <1>2, <1>3, <1>5, <1>6 DEF SoundEdge
-----------------------------------------------------------------------------
(* Where the clocks are in each state of UCau_out.                         *)

LEMMA StepFacts ==
  ASSUME TypeInv, SoundTick
  PROVE  /\ bclk \in {0, 1} /\ daclrc \in {0, 1} /\ level \in 1 .. MaxHalf
         /\ slot \in 0 .. BitsPerChannel - 1 /\ value_cont \in 0 .. WIDTH - 1
         /\ \/ /\ level' = level + 1
               /\ bclk' = bclk /\ daclrc' = daclrc /\ slot' = slot
            \/ /\ level >= 2 /\ bclk = 0 /\ bclk' = 1 /\ level' = 1
               /\ daclrc' = daclrc /\ slot' = slot
            \/ /\ level >= 2 /\ bclk = 1 /\ bclk' = 0 /\ level' = 1
               /\ IF slot = BitsPerChannel - 1
                  THEN slot' = 0 /\ daclrc' = 1 - daclrc
                  ELSE slot' = slot + 1 /\ daclrc' = daclrc
         /\ ep_out' = es_out /\ ep_out \in SoundStates
         /\ value_cont' = IF es_out = "e2" THEN WIDTH - 1
                          ELSE IF ep_out # "e5" THEN value_cont
                          ELSE IF value_cont = 0 THEN WIDTH - 1
                          ELSE value_cont - 1
BY ClockFacts, EdgeFacts DEF TypeInv, SoundTick

LEMMA LagStep == ASSUME TypeInv, LagInv, SoundTick PROVE LagInv'
<1>1. CASE ep_out = "e0"
  BY <1>1, StepFacts, Sizes DEF LagInv, es_out, fin_cont, done, Starts
<1>2. CASE ep_out = "e1"
  BY <1>2, StepFacts, Sizes DEF LagInv, es_out, fin_cont, done, Starts
<1>3. CASE ep_out = "e2"
  BY <1>3, StepFacts, Sizes DEF LagInv, es_out, fin_cont, done, Starts
<1>4. CASE ep_out = "e3"
  BY <1>4, StepFacts, Sizes DEF LagInv, es_out, fin_cont, done, Starts
<1>5. CASE ep_out = "e4"
  BY <1>5, StepFacts, Sizes DEF LagInv, es_out, fin_cont, done, Starts
<1>6. CASE ep_out = "e5"
  BY <1>6, StepFacts, Sizes DEF LagInv, es_out, fin_cont, done, Starts
<1>7. CASE ep_out = "e6"
  BY <1>7, StepFacts, Sizes DEF LagInv, es_out, fin_cont, done, Starts
<1>8. CASE ep_out = "e7"
  BY <1>8, StepFacts, Sizes DEF LagInv, es_out, fin_cont, done, Starts
<1> QED
  BY <1>1, <1>2, <1>3, <1>4, <1>5, <1>6, <1>7, <1>8, StepFacts DEF SoundStates

(* A frame begins: the state machine waits for daclrc.                     *)
LEMMA BeginsWaiting ==
  ASSUME TypeInv, LagInv, SoundTick, FrameBegins
  PROVE  /\ ep_out \in {"e0", "e6"} /\ ep_out' = ep_out /\ Starts'
         /\ slot = BitsPerChannel - 1 /\ bclk = 1
<1>1. daclrc = 0 /\ daclrc' = 1
  BY DEF FrameBegins
<1>2. /\ bclk = 1 /\ bclk' = 0 /\ level' = 1 /\ slot' = 0
      /\ slot = BitsPerChannel - 1
  BY <1>1, StepFacts, Sizes
<1>3. ep_out \in {"e0", "e6"}
  BY <1>1, <1>2, StepFacts, Sizes DEF LagInv, done, Starts, SoundStates
<1> QED
  BY <1>1, <1>2, <1>3, StepFacts DEF es_out, Starts

LEMMA AlignedStep ==
  ASSUME TypeInv, LagInv, AlignedInv, SoundTick, ~dirty
  PROVE  AlignedInv'
<1>1. CASE ep_out = "e0"
  BY <1>1, StepFacts, Sizes DEF LagInv, AlignedInv, es_out, fin_cont, done,
     Starts
<1>2. CASE ep_out = "e1"
  BY <1>2, StepFacts, Sizes DEF LagInv, AlignedInv, es_out, fin_cont, done,
     Starts
<1>3. CASE ep_out = "e2"
  BY <1>3, StepFacts, Sizes DEF LagInv, AlignedInv, es_out, fin_cont, done,
     Starts
<1>4. CASE ep_out = "e3"
  BY <1>4, StepFacts, Sizes DEF LagInv, AlignedInv, es_out, fin_cont, done,
     Starts
<1>5. CASE ep_out = "e4"
  BY <1>5, StepFacts, Sizes DEF LagInv, AlignedInv, es_out, fin_cont, done,
     Starts
<1>6. CASE ep_out = "e5"
  BY <1>6, StepFacts, Sizes DEF LagInv, AlignedInv, es_out, fin_cont, done,
     Starts
<1>7. CASE ep_out = "e6"
  BY <1>7, StepFacts, Sizes DEF LagInv, AlignedInv, es_out, fin_cont, done,
     Starts
<1>8. CASE ep_out = "e7"
  BY <1>8, StepFacts, Sizes DEF LagInv, AlignedInv, es_out, fin_cont, done,
     Starts
<1> QED
  BY <1>1, <1>2, <1>3, <1>4, <1>5, <1>6, <1>7, <1>8, StepFacts DEF SoundStates

(* The same at the first frame after a reset. *)
LEMMA AlignedInFirst ==
  ASSUME TypeInv, LagInv, SoundTick, FrameBegins
  PROVE  AlignedInv'
<1>1. daclrc' = 1
  BY DEF FrameBegins
<1> QED
  BY <1>1, BeginsWaiting DEF AlignedInv
-----------------------------------------------------------------------------
(* What is in the shift register.                                          *)

LEMMA TurnFurther ==
  ASSUME NEW word \in Bits, NEW n \in 0 .. WIDTH - 1,
         \A i \in 1 .. WIDTH : word[i] = loaded[Turned(i, n)]
  PROVE  \A i \in 1 .. WIDTH :
           Rotated(word)[i] = loaded[Turned(i, IF n = WIDTH - 1 THEN 0 ELSE n + 1)]
<1> DEFINE m == IF n = WIDTH - 1 THEN 0 ELSE n + 1
           j(i) == IF i = WIDTH THEN 1 ELSE i + 1
<1>1. TAKE i \in 1 .. WIDTH
<1>2. j(i) \in 1 .. WIDTH /\ Turned(j(i), n) = Turned(i, m)
  BY Sizes DEF Turned
<1>3. Rotated(word)[i] = word[j(i)]
  BY RotatedFacts
<1>4. word[j(i)] = loaded[Turned(j(i), n)]
  BY <1>2
<1> QED
  BY <1>2, <1>3, <1>4

LEMMA WordStep ==
  ASSUME TypeInv, LagInv, AlignedInv, WordInv, SoundTick
  PROVE  WordInv'
<1>1. CASE FrameBegins
  <2>1. dirty' = FALSE /\ loaded' = <<>> /\ daclrc' = 1
    BY <1>1 DEF TypeInv, SoundTick, FrameBegins
  <2>2. ep_out' \in {"e0", "e6"}
    BY <1>1, BeginsWaiting
  <2> QED
    BY <2>1, <2>2 DEF WordInv, Awaited
<1>2. CASE ~FrameBegins /\ dirty
  BY <1>2 DEF TypeInv, SoundTick, WordInv
<1>3. CASE ~FrameBegins /\ ~dirty /\ ep_out = "e1"
  <2>1. loaded' = sample /\ sample_aux' = sample /\ ep_out' = "e2"
    BY <1>3 DEF SoundTick, SoundEdge, es_out, nextsample
  <2>2. ~Awaited' /\ ~dirty'
    BY <1>3, <2>1 DEF SoundTick, Awaited
  <2>3. done' = 0
    BY <2>1, StepFacts, Sizes DEF done
  <2>4. \A i \in 1 .. WIDTH : Turned(i, 0) = i
    BY Sizes DEF Turned
  <2> QED
    BY <2>1, <2>2, <2>3, <2>4, SampleIsBits DEF WordInv, Turned
<1>4. CASE ~FrameBegins /\ ~dirty /\ ep_out # "e1" /\ Awaited
  <2>1. loaded' = loaded /\ ~dirty' /\ loaded = <<>>
    BY <1>4 DEF SoundTick, nextsample, WordInv
  <2>2. ep_out' = "e1"
    BY <1>4, StepFacts DEF Awaited, AlignedInv, es_out
  <2> QED
    BY <2>1, <2>2 DEF WordInv, Awaited
<1>5. CASE ~FrameBegins /\ ~dirty /\ ~Awaited
  <2>1. /\ loaded' = loaded /\ ~dirty' /\ loaded \in Bits
        /\ \A i \in 1 .. WIDTH : sample_aux[i] = loaded[Turned(i, done)]
        /\ ep_out \notin {"e0", "e1"}
    BY <1>5 DEF SoundTick, nextsample, WordInv, Awaited
  <2>2. ~Awaited'
    BY <1>5, <2>1, StepFacts, Sizes
       DEF Awaited, LagInv, FrameBegins, es_out, SoundStates
  <2>3. CASE ep_out = "e5"
    <3>1. sample_aux' = Rotated(sample_aux)
      BY <2>3 DEF SoundTick, SoundEdge, nextsample
    <3>2. done' = IF done = WIDTH - 1 THEN 0 ELSE done + 1
      BY <2>3, StepFacts, Sizes DEF done, es_out
    <3>3. sample_aux \in Bits /\ done \in 0 .. WIDTH - 1
      BY Sizes DEF TypeInv, done
    <3>4. \A i \in 1 .. WIDTH : sample_aux'[i] = loaded[Turned(i, done')]
      BY <2>1, <3>1, <3>2, <3>3, TurnFurther
    <3> QED
      BY <2>1, <2>2, <3>4 DEF WordInv, Turned
  <2>4. CASE ep_out # "e5"
    <3>1. sample_aux' = sample_aux
      BY <2>1, <2>4 DEF SoundTick, SoundEdge, nextsample
    <3>2. done' = done
      BY <1>5, <2>1, <2>4, StepFacts, Sizes
         DEF done, es_out, AlignedInv, SoundStates
    <3> QED
      BY <2>1, <2>2, <3>1, <3>2 DEF WordInv, Turned
  <2> QED
    BY <2>3, <2>4
<1> QED
  BY <1>1, <1>2, <1>3, <1>4, <1>5

-----------------------------------------------------------------------------
(* What the codec has taken.                                               *)

(* The bit it takes as bclk rises is the next one of the sample.           *)
LEMMA NextBit ==
  ASSUME TypeInv, LagInv, AlignedInv, WordInv, SoundTick,
         ~dirty, bclk = 0, bclk' = 1, slot < WIDTH
  PROVE  sample_aux'[1] = loaded'[slot + 1]
<1>1. level >= 2
  BY StepFacts
<1>2. ep_out \in {"e1", "e2", "e3", "e5"}
  BY <1>1, StepFacts, Sizes DEF LagInv, AlignedInv, SoundStates, Starts
<1>3. CASE ep_out = "e1"
  <2>1. slot = 0
    BY <1>3 DEF AlignedInv
  <2>2. daclrc' = 1 => daclrc = 1
    BY <1>3 DEF AlignedInv
  <2> QED
    BY <1>3, <2>1, <2>2 DEF SoundTick, SoundEdge, nextsample, FrameBegins
<1>4. CASE ep_out # "e1"
  <2>1. /\ ~Awaited /\ loaded \in Bits
        /\ \A i \in 1 .. WIDTH : sample_aux[i] = loaded[Turned(i, done)]
        /\ done \in 0 .. WIDTH - 1
    BY <1>2, <1>4, StepFacts, Sizes DEF WordInv, Awaited, done
  <2>2. loaded' = loaded
    BY <1>4, StepFacts DEF SoundTick, nextsample, FrameBegins
  <2>3. CASE ep_out \in {"e2", "e3"}
    <3>1. sample_aux' = sample_aux
      BY <2>3 DEF SoundTick, SoundEdge, nextsample
    <3>2. Turned(1, done) = slot + 1
      BY <2>1, <2>3, StepFacts, Sizes DEF Turned, AlignedInv, LagInv, done
    <3> QED
      BY <2>1, <2>2, <3>1, <3>2, Sizes
  <2>4. CASE ep_out = "e5"
    <3>1. sample_aux' = Rotated(sample_aux)
      BY <2>4 DEF SoundTick, SoundEdge, nextsample
    <3>2. sample_aux'[1] = sample_aux[2]
      BY <3>1, RotatedFacts, Sizes DEF TypeInv
    <3>3. Turned(2, done) = slot + 1
      BY <2>1, <2>4, StepFacts, Sizes DEF Turned, AlignedInv
    <3> QED
      BY <2>1, <2>2, <3>2, <3>3, Sizes
  <2> QED
    BY <1>2, <1>4, <2>3, <2>4
<1> QED
  BY <1>3, <1>4
(* A step within a level of daclrc, on the channel that is being read. *)
LEMMA ChannelStep ==
  ASSUME TypeInv, LagInv, AlignedInv, WordInv, SoundTick,
         ~dirty, ~FrameEnded, daclrc' = daclrc, loaded' \in Bits,
         NEW word \in Seq({0, 1}), Holds(word, bitsRead),
         \A i \in 1 .. bitsRead : loaded'[i] = loaded[i]
  PROVE  LET next == Taken(daclrc, word)
         IN  /\ next \in Seq({0, 1}) /\ Len(next) = bitsRead'
             /\ \A i \in 1 .. bitsRead' : next[i] = loaded'[i]
<1> DEFINE next == Taken(daclrc, word)
<1>1. /\ Len(word) = bitsRead /\ bitsRead \in 0 .. WIDTH
      /\ \A i \in 1 .. bitsRead : word[i] = loaded'[i]
  BY StepFacts, Sizes DEF Holds, bitsRead
<1>2. CASE bclk = 0 /\ bclk' = 1 /\ slot < WIDTH
  <2>1. bitsRead = slot /\ bitsRead' = slot + 1 /\ slot \in Nat
    BY <1>2, StepFacts, Sizes DEF bitsRead
  <2>2. next = Append(word, sample_aux'[1])
    BY <1>1, <1>2, <2>1 DEF Taken
  <2>3. sample_aux'[1] = loaded'[slot + 1] /\ sample_aux'[1] \in {0, 1}
    <3>1. slot + 1 \in 1 .. WIDTH
      BY <1>2, <2>1, Sizes
    <3> QED
      BY <1>2, <3>1, NextBit DEF Bits
  <2>4. /\ next \in Seq({0, 1}) /\ Len(next) = slot + 1
        /\ next[slot + 1] = sample_aux'[1]
        /\ \A i \in 1 .. slot : next[i] = word[i]
    BY <1>1, <2>1, <2>2, <2>3
  <2> QED
    BY <1>1, <2>1, <2>3, <2>4
<1>3. CASE ~(bclk = 0 /\ bclk' = 1 /\ slot < WIDTH)
  <2>1. bitsRead' = bitsRead
    BY <1>3, StepFacts, Sizes DEF bitsRead
  <2>2. next = word
    BY <1>1, <1>3, StepFacts, Sizes DEF Taken, bitsRead
  <2> QED
    BY <1>1, <2>1, <2>2
<1> QED
  BY <1>2, <1>3

LEMMA ReadStep ==
  ASSUME TypeInv, LagInv, AlignedInv, WordInv, ReadInv, SoundTick
  PROVE  ReadInv' /\ left' \in Seq({0, 1}) /\ right' \in Seq({0, 1})
<1>1. /\ left' = Taken(1, left) /\ right' = Taken(0, right)
      /\ dirty' = (dirty /\ ~FrameBegins)
      /\ loaded' = IF FrameBegins THEN <<>>
                   ELSE IF nextsample /\ ~dirty THEN sample ELSE loaded
  BY DEF SoundTick
<1>2. <<>> \in Seq({0, 1}) /\ Len(<<>>) = 0
  BY EmptySeq
<1>3. CASE dirty
  <2>1. left' = <<>> /\ right' = <<>>
    BY <1>1, <1>3 DEF Taken
  <2>2. ~dirty' => daclrc' = 1 /\ Starts'
    BY <1>1, <1>3, BeginsWaiting DEF FrameBegins
  <2> QED
    BY <1>2, <2>1, <2>2 DEF ReadInv
<1>4. CASE ~dirty /\ FrameBegins
  <2>1. daclrc = 0 /\ daclrc' = 1 /\ Starts' /\ ~FrameEnded /\ bclk = 1
    BY <1>4, BeginsWaiting DEF FrameBegins, FrameEnded
  <2>2. left' = left /\ right' = right
    BY <1>1, <1>4, <2>1 DEF Taken
  <2> QED
    BY <1>1, <1>4, <2>1, <2>2 DEF ReadInv, TypeInv
<1>5. CASE ~dirty /\ ~FrameBegins /\ FrameEnded
  <2>1. left' = <<>> /\ right' = <<>>
    BY <1>1, <1>5 DEF Taken
  <2>2. daclrc' = 1 /\ slot' = 0 /\ bclk' = 0
    BY <1>5, StepFacts DEF FrameEnded
  <2>3. bitsRead' = 0
    BY <2>2, Sizes DEF bitsRead
  <2>4. Len(left') = 0 /\ \A i \in 1 .. 0 : left'[i] = loaded'[i]
    BY <1>2, <2>1
  <2>5. Holds(left, bitsRead)'
    BY <2>3, <2>4 DEF Holds
  <2>6. ~dirty'
    BY <1>1, <1>5
  <2> QED
    BY <1>2, <2>1, <2>2, <2>5, <2>6 DEF ReadInv
<1>6. CASE ~dirty /\ ~FrameBegins /\ ~FrameEnded /\ daclrc = 1
  <2>1. /\ ~dirty' /\ Holds(left, bitsRead) /\ right = <<>>
        /\ left \in Seq({0, 1})
    BY <1>1, <1>6 DEF ReadInv, FrameEnded, Starts, TypeInv
  <2>2. right' = <<>>
    BY <1>1, <1>6, <2>1 DEF Taken
  <2>3. CASE daclrc' = 1
    <3>1. CASE loaded' \in Bits
      <4>1. \A i \in 1 .. bitsRead : loaded'[i] = loaded[i]
        <5>1. CASE nextsample
          <6>1. slot = 0 /\ bclk = 0
            BY <1>6, <5>1 DEF AlignedInv, nextsample
          <6> QED
            BY <6>1, Sizes DEF bitsRead
        <5>2. CASE ~nextsample
          BY <1>1, <1>6, <5>2
        <5> QED
          BY <5>1, <5>2
      <4>2. /\ left' \in Seq({0, 1}) /\ Len(left') = bitsRead'
            /\ \A i \in 1 .. bitsRead' : left'[i] = loaded'[i]
        BY <1>1, <1>6, <2>1, <2>3, <3>1, <4>1, ChannelStep
      <4> QED
        BY <1>2, <2>1, <2>2, <2>3, <4>2 DEF ReadInv, Holds
    <3>2. CASE loaded' \notin Bits
      <4>1. ep_out = "e0" \/ ep_out = "e6"
        BY <1>1, <1>6, <3>2, SampleIsBits DEF WordInv, Awaited, nextsample
      <4>2. Starts
        BY <1>6, <4>1 DEF AlignedInv, LagInv
      <4> QED
        BY <1>6, <4>2 DEF Starts, FrameEnded
    <3> QED
      BY <3>1, <3>2
  <2>4. CASE daclrc' # 1
    <3>1. /\ daclrc' = 0 /\ slot = BitsPerChannel - 1 /\ bclk = 1
          /\ slot' = 0 /\ bclk' = 0
      <4>1. daclrc = 1 /\ daclrc' # daclrc
        BY <1>6, <2>4
      <4> QED
        BY <4>1, StepFacts
    <3>2. bitsRead = WIDTH /\ bitsRead' = 0
      BY <3>1, Sizes DEF bitsRead
    <3>3. left' = left /\ ~nextsample
      BY <1>1, <1>6, <3>1 DEF Taken, AlignedInv, nextsample
    <3>4. loaded' = loaded
      BY <1>1, <1>6, <3>3
    <3> QED
      BY <1>2, <2>1, <2>2, <3>1, <3>2, <3>3, <3>4 DEF ReadInv, Holds
  <2> QED
    BY <2>3, <2>4
<1>7. CASE ~dirty /\ ~FrameBegins /\ daclrc = 0
  <2>1. /\ ~dirty' /\ ~FrameEnded /\ ~nextsample
        /\ Holds(left, WIDTH) /\ Holds(right, bitsRead)
    <3>1. ~dirty'
      BY <1>1, <1>7
    <3>2. ~FrameEnded
      BY <1>7 DEF FrameEnded
    <3>3. ~nextsample
      BY <1>7 DEF AlignedInv, nextsample
    <3>4. Holds(left, WIDTH) /\ Holds(right, bitsRead)
      BY <1>7 DEF ReadInv
    <3> QED
      BY <3>1, <3>2, <3>3, <3>4
  <2>2. daclrc' = 0
    <3>1. daclrc' \in {0, 1}
      BY <1>7, StepFacts
    <3> QED
      BY <1>7, <3>1 DEF FrameBegins
  <2>3. loaded' = loaded /\ left' = left
    BY <1>1, <1>7, <2>1 DEF Taken
  <2>4. loaded \in Bits
    BY <1>7 DEF WordInv, AlignedInv, Awaited
  <2>5. /\ right' \in Seq({0, 1}) /\ Len(right') = bitsRead'
        /\ \A i \in 1 .. bitsRead' : right'[i] = loaded'[i]
    BY <1>1, <1>7, <2>1, <2>3, <2>4, <2>2, ChannelStep DEF TypeInv
  <2> QED
    BY <2>1, <2>3, <2>5, <2>2 DEF ReadInv, Holds, TypeInv
<1> QED
  BY <1>3, <1>4, <1>5, <1>6, <1>7, StepFacts
-----------------------------------------------------------------------------
(* The invariant.                                                          *)

LEMMA InitInv == SoundInit => SoundInv
<1> SUFFICES ASSUME SoundInit PROVE SoundInv
  OBVIOUS
<1>1. <<>> \in Seq({0, 1})
  OBVIOUS
<1>2. TypeInv
  BY <1>1, Sizes, SilenceIsBits DEF SoundInit, TypeInv, SoundStates
<1>3. ep_out = "e0" /\ dirty /\ loaded = <<>> /\ left = <<>> /\ right = <<>>
  BY DEF SoundInit
<1> QED
  BY <1>2, <1>3 DEF SoundInv, LagInv, AlignedInv, WordInv, ReadInv

LEMMA TickInv == ASSUME SoundInv, SoundTick PROVE SoundInv'
<1>1. TypeInv /\ LagInv /\ AlignedInv /\ WordInv /\ ReadInv
  BY DEF SoundInv
<1>2. LagInv'
  BY <1>1, LagStep
<1>3. AlignedInv'
  <2>1. CASE FrameBegins
    BY <1>1, <2>1, AlignedInFirst
  <2>2. CASE ~dirty
    BY <1>1, <2>2, AlignedStep
  <2>3. CASE dirty /\ ~FrameBegins
    BY <2>3 DEF SoundTick, AlignedInv
  <2> QED
    BY <2>1, <2>2, <2>3
<1>4. WordInv'
  BY <1>1, WordStep
<1>5. ReadInv' /\ left' \in Seq({0, 1}) /\ right' \in Seq({0, 1})
  BY <1>1, ReadStep
<1>6. TypeInv'
  <2>1. loaded' \in Bits \cup {<<>>}
    BY <1>1, SampleIsBits DEF TypeInv, SoundTick
  <2>2. dirty' \in BOOLEAN
    BY DEF SoundTick
  <2> QED
    BY <1>1, <1>5, <2>1, <2>2, EdgeFacts, ClockFacts DEF SoundTick, TypeInv
<1> QED
  BY <1>2, <1>3, <1>4, <1>5, <1>6 DEF SoundInv

LEMMA ResetInv == ASSUME SoundInv, SoundReset PROVE SoundInv'
<1>1. <<>> \in Seq({0, 1})
  OBVIOUS
<1>2. TypeInv
  BY DEF SoundInv
<1>3. TypeInv'
  BY <1>1, <1>2, Sizes, SilenceIsBits, ClockFacts
     DEF SoundReset, TypeInv, SoundStates
<1>4. /\ ep_out' = "e0" /\ dirty' = TRUE
      /\ loaded' = <<>> /\ left' = <<>> /\ right' = <<>>
  BY DEF SoundReset
<1> QED
  BY <1>3, <1>4 DEF SoundInv, LagInv, AlignedInv, WordInv, ReadInv

LEMMA SoundStays == ASSUME SoundInv, UNCHANGED soundVars PROVE SoundInv'
BY DEF SoundInv, soundVars, TypeInv, LagInv, AlignedInv, WordInv, ReadInv,
   Awaited, Holds, Turned, Starts, done, bitsRead

(* The clocks of the codec, the state of UCau_out, the shift register and  *)
(* the bits the codec has agree in every state, whatever the codec's       *)
(* clocks, the register and the resets do.                                 *)
THEOREM SoundAligned == SoundSpec => []SoundInv
<1>1. SoundInit => SoundInv
  BY InitInv
<1>2. SoundInv /\ [SoundNext]_soundVars => SoundInv'
  BY TickInv, ResetInv, SoundStays DEF SoundNext
<1> QED
  BY <1>1, <1>2, PTL DEF SoundSpec

-----------------------------------------------------------------------------
(* Every step of the module is a step of Tone.                             *)

(* Only the step in which daclrc rises shows a frame. *)
LEMMA FrameSeen ==
  ASSUME TypeInv, SoundTick
  PROVE  FrameEnded' => FrameBegins
<1> SUFFICES ASSUME FrameEnded' PROVE FrameBegins
  OBVIOUS
<1>1. daclrc' = 1 /\ slot' = 0 /\ bclk' = 0 /\ level' = 1
  BY DEF FrameEnded
<1>2. daclrc = 0
  BY <1>1, StepFacts, Sizes
<1> QED
  BY <1>1, <1>2 DEF FrameBegins

(* A word of WIDTH bits that agrees with the sample is the sample. *)
LEMMA WholeWord ==
  ASSUME NEW word \in Seq({0, 1}), loaded \in Bits, Holds(word, WIDTH)
  PROVE  word = loaded
<1>1. Len(word) = WIDTH /\ \A i \in 1 .. WIDTH : word[i] = loaded[i]
  BY DEF Holds
<1>2. word = [i \in 1 .. WIDTH |-> word[i]]
  BY <1>1
<1>3. loaded = [i \in 1 .. WIDTH |-> loaded[i]]
  BY DEF Bits
<1> QED
  BY <1>1, <1>2, <1>3

LEMMA BitsNotEmpty == \A word \in Bits : word # <<>>
<1>1. TAKE word \in Bits
<1>2. DOMAIN word = 1 .. WIDTH
  BY DEF Bits
<1>3. DOMAIN <<>> = 1 .. 0
  OBVIOUS
<1>4. 1 \in 1 .. WIDTH /\ 1 \notin 1 .. 0
  BY Sizes
<1> QED
  BY <1>2, <1>3, <1>4

(* A frame that the module began ends with the sample in both channels. *)
LEMMA FrameWhole ==
  ASSUME SoundInv, SoundTick, ~dirty, FrameBegins
  PROVE  /\ loaded \in Bits /\ left = loaded /\ right = loaded
         /\ left' = left /\ right' = right /\ FrameEnded' /\ ~nextsample
<1>1. TypeInv /\ LagInv /\ AlignedInv /\ WordInv /\ ReadInv
  BY DEF SoundInv
<1>2. /\ ep_out \in {"e0", "e6"} /\ slot = BitsPerChannel - 1 /\ bclk = 1
      /\ Starts' /\ daclrc = 0 /\ daclrc' = 1
  BY <1>1, BeginsWaiting DEF FrameBegins
<1>3. ~Awaited /\ ~nextsample
  BY <1>1, <1>2 DEF AlignedInv, Awaited, nextsample
<1>4. loaded \in Bits
  BY <1>1, <1>3 DEF WordInv
<1>5. bitsRead = WIDTH
  BY <1>2, Sizes DEF bitsRead
<1>6. Holds(left, WIDTH) /\ Holds(right, WIDTH)
  BY <1>1, <1>2, <1>5 DEF ReadInv
<1>7. left = loaded /\ right = loaded
  BY <1>1, <1>4, <1>6, WholeWord DEF TypeInv
<1>8. left' = left /\ right' = right
  BY <1>2 DEF SoundTick, Taken, FrameEnded
<1>9. FrameEnded'
  BY <1>2 DEF FrameEnded, Starts
<1> QED
  BY <1>3, <1>4, <1>7, <1>8, <1>9

LEMMA SameValue == Promise!Value = sample /\ Promise!Setting = Setting
BY DEF Promise!Value, Promise!Silence, Promise!Setting, sample, Silence,
   Setting

LEMMA SameAdvance ==
  SoundEdge => /\ nextsample => Q' = Promise!Advanced
               /\ ~nextsample => Q' = Q
BY DEF SoundEdge, Promise!Advanced, Promise!Increment, delta

LEMMA TickIsTone ==
  ASSUME SoundInv, SoundTick
  PROVE  Promise!ToneNext
<1>1. TypeInv /\ LagInv /\ AlignedInv /\ WordInv /\ ReadInv
  BY DEF SoundInv
<1>2. Promise!Set
  BY SameValue DEF SoundTick, SoundEdge, Promise!Set
<1>3. ~FrameBegins => ~FrameEnded'
  BY <1>1, FrameSeen
<1>4. CASE dirty
  <2>1. left' = <<>> /\ loaded' = loaded
    BY <1>1, <1>4 DEF SoundTick, Taken, WordInv
  <2>2. Q' \in {Q, Promise!Advanced}
    BY SameAdvance DEF SoundTick
  <2>3. dirty' \in BOOLEAN
    BY DEF SoundTick
  <2> QED
    BY <1>2, <1>4, <2>1, <2>2, <2>3 DEF Promise!ToneNext, Promise!Settle
<1>5. CASE ~dirty /\ FrameBegins
  <2>1. /\ loaded \in Bits /\ left' = loaded /\ right' = loaded
        /\ FrameEnded' /\ ~nextsample
    BY <1>5, FrameWhole
  <2>2. loaded' = <<>> /\ dirty' = dirty /\ Q' = Q
    BY <1>1, <1>5, <2>1, SameAdvance DEF SoundTick, TypeInv
  <2>3. loaded # <<>>
    BY <2>1, BitsNotEmpty
  <2> QED
    BY <1>2, <2>1, <2>2, <2>3 DEF Promise!ToneNext, Promise!Frame
<1>6. CASE ~dirty /\ ~FrameBegins /\ nextsample
  <2>1. loaded = <<>> /\ loaded' = Promise!Value
    BY <1>1, <1>6, SameValue DEF SoundTick, WordInv, Awaited, nextsample
  <2>2. Q' = Promise!Advanced /\ dirty' = dirty
    BY <1>1, <1>6, SameAdvance DEF SoundTick, TypeInv
  <2> QED
    BY <1>2, <1>3, <1>6, <2>1, <2>2 DEF Promise!ToneNext, Promise!Sample
<1>7. CASE ~dirty /\ ~FrameBegins /\ ~nextsample
  <2>1. loaded' = loaded /\ dirty' = dirty /\ Q' = Q
    BY <1>1, <1>7, SameAdvance DEF SoundTick, TypeInv
  <2> QED
    BY <1>2, <1>3, <1>7, <2>1 DEF Promise!ToneNext, Promise!Wait
<1> QED
  BY <1>4, <1>5, <1>6, <1>7

LEMMA ResetIsTone ==
  ASSUME SoundReset
  PROVE  Promise!ToneNext
<1>1. Promise!Set /\ setting'.enable = 0
  BY SameValue DEF SoundReset, Promise!Set
<1> QED
  BY <1>1 DEF SoundReset, Promise!ToneNext, Promise!Reset

(* The module is a Tone: every frame the codec receives is one sample, the *)
(* same in both channels and whole, and the phase has gone on by one       *)
(* increment since the frame before.                                       *)
THEOREM SoundIsTone == SoundSpec => ImplementsTone
<1>1. SoundInit => Promise!ToneInit
  BY SameValue DEF SoundInit, Promise!ToneInit
<1>2. SoundInv /\ [SoundNext]_soundVars
        => [Promise!ToneNext]_(Promise!toneVars)
  <2> SUFFICES ASSUME SoundInv, [SoundNext]_soundVars
               PROVE  [Promise!ToneNext]_(Promise!toneVars)
    OBVIOUS
  <2>1. CASE SoundTick
    BY <2>1, TickIsTone
  <2>2. CASE SoundReset
    BY <2>2, ResetIsTone
  <2>3. CASE UNCHANGED soundVars
    BY <2>3 DEF soundVars, Promise!toneVars, FrameEnded
  <2> QED
    BY <2>1, <2>2, <2>3 DEF SoundNext
<1> QED
  BY <1>1, <1>2, SoundAligned, PTL DEF SoundSpec, ImplementsTone,
     Promise!ToneSpec
=============================================================================
