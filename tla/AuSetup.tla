------------------------------ MODULE AuSetup -------------------------------
(***************************************************************************)
(* The set-up of the codec over I2C (au_setup.vhd), with the codec as the  *)
(* other end of the bus.                                                   *)
(*                                                                         *)
(* One step is one cycle of clk_50.  The master writes one word after the  *)
(* other: START, the address of the codec and two bytes, each followed by  *)
(* a clock in which the codec pulls i2c_sdat to accept the byte, STOP.  A  *)
(* byte that is not accepted sends it back to the first word, without a    *)
(* STOP and driving the last bit of that byte again as the clock rises.    *)
(* If that bit is 0 the START that follows is this edge, which races with  *)
(* the clock: the codec may see it or not.                                 *)
(*                                                                         *)
(* ep_setup and es_setup are ep and es of au_setup, sda is the line        *)
(* i2c_sdat.                                                               *)
(***************************************************************************)
EXTENDS SoundParameters, Sequences

VARIABLES
  ep_setup, ctmp, cbits, caddr, sdat, \* registers of au_setup
  mode,       \* of the codec: "idle", "byte" or "accept"
  got,        \* the bits it took since the last START
  pull,       \* it pulls the line
  refusals,   \* bytes it refused so far
  taken,      \* history: the words it took since it last refused a byte
  missed      \* history: it missed a START

setupVars == <<ep_setup, ctmp, cbits, caddr, sdat,
               mode, got, pull, refusals, taken, missed>>

SetupInit ==
  /\ ep_setup = "e0" /\ ctmp = HALF /\ cbits = 0 /\ caddr = 0 /\ sdat = 1
  /\ mode = "idle" /\ got = <<>> /\ pull = FALSE /\ refusals = 0
  /\ taken = <<>> /\ missed = FALSE

(* The signals of the bus. *)
sclk == IF ctmp >= HALF THEN 1 ELSE 0
setbitz == ep_setup \in {"e2", "e3"}
sda == IF pull THEN 0 ELSE IF setbitz THEN 1 ELSE sdat

up       == ctmp = HALF - 1
down     == ctmp = 2 * HALF - 1
stop     == cbits \in {ByteBits, 2 * ByteBits, 3 * ByteBits}
bit24    == cbits = 3 * ByteBits
lastaddr == caddr = LADDR

es_setup ==
  CASE ep_setup = "e0" -> IF down THEN "e1" ELSE "e0"
    [] ep_setup = "e1" -> IF down /\ stop THEN "e2" ELSE "e1"
    [] ep_setup = "e2" -> IF ~up THEN "e2" ELSE IF sda = 1 THEN "e0" ELSE "e3"
    [] ep_setup = "e3" -> IF ~down THEN "e3" ELSE IF bit24 THEN "e4" ELSE "e1"
    [] ep_setup = "e4" -> IF ~down THEN "e4" ELSE IF lastaddr THEN "e5" ELSE "e0"
    [] ep_setup = "e5" -> "e5"

refused  == ep_setup = "e2" /\ up /\ sda = 1
nextWord == ep_setup = "e4" /\ down /\ ~lastaddr
settmp   == (ep_setup = "e0" /\ down) \/ refused \/ nextWord
setbit0  == (ep_setup = "e0" /\ down) \/ (ep_setup = "e3" /\ down /\ bit24)
setbit1  == ep_setup = "e4" /\ down
incbits  == \/ ep_setup = "e1" /\ down /\ ~stop         \* also ldbit
            \/ ep_setup = "e3" /\ down /\ ~bit24
claddr   == refused \/ nextWord                   \* also clbits

(* Forms marked as mutations are faults a run must notice. *)
CaddrNext_Clear ==                                 \* mutation
  IF claddr THEN 0 ELSE IF nextWord THEN caddr + 1 ELSE caddr
CaddrNext == IF nextWord THEN caddr + 1 ELSE IF claddr THEN 0 ELSE caddr

CbitsNext_Keep ==                                  \* mutation
  IF incbits THEN cbits + 1 ELSE IF nextWord THEN 0 ELSE cbits
CbitsNext == IF incbits THEN cbits + 1 ELSE IF claddr THEN 0 ELSE cbits

(* The registers of the master at an edge of clk_50. *)
Master ==
  /\ ep_setup' = es_setup
  /\ ctmp' = IF settmp THEN HALF
             ELSE IF ep_setup # "e5" THEN (ctmp + 1) % (2 * HALF) ELSE ctmp
  /\ cbits' = CbitsNext
  /\ caddr' = CaddrNext
  /\ sdat' = IF incbits THEN Table(caddr)[cbits + 1]
             ELSE IF setbit0 THEN 0 ELSE IF setbit1 THEN 1 ELSE sdat

-----------------------------------------------------------------------------
(* The codec. *)

Rises == sclk = 0 /\ sclk' = 1
Falls == sclk = 1 /\ sclk' = 0
High  == sclk = 1 /\ sclk' = 1

ByteDone == mode = "byte" /\ got # <<>> /\ Len(got) % ByteBits = 0

(* The message is for another device. *)
Foreign == SubSeq(got, 1, ByteBits) # SubSeq(Table(0), 1, ByteBits)

(* The data line falls as the clock rises. *)
Race == Rises /\ mode = "idle" /\ sda = 1 /\ sda' = 0

(* What it does of itself: START, STOP, a bit, a byte that is whole.       *)
Start ==
  /\ UNCHANGED <<pull, refusals, taken, missed>>
  /\ (High \/ Race) /\ sda = 1 /\ sda' = 0
  /\ mode' = "byte" /\ got' = <<>>

Stop ==
  /\ UNCHANGED <<got, pull, refusals, taken, missed>>
  /\ High /\ sda = 0 /\ sda' = 1
  /\ mode' = "idle"

TakeBit ==
  /\ UNCHANGED <<mode, pull, refusals, taken, missed>>
  /\ Rises /\ mode = "byte"
  /\ got' = Append(got, sda')

Accept ==
  /\ Falls /\ ByteDone /\ ~Foreign
  /\ mode' = "accept" /\ pull' = TRUE
  /\ taken' = IF Len(got) = 3 * ByteBits THEN Append(taken, got) ELSE taken
  /\ UNCHANGED <<got, refusals, missed>>

Refuse ==
  /\ Falls /\ ByteDone
  /\ refusals' = IF Foreign THEN refusals ELSE refusals + 1
  /\ refusals' <= MaxRefusals
  /\ mode' = "idle" /\ taken' = <<>>
  /\ UNCHANGED <<got, pull, missed>>

Release ==
  /\ Falls /\ mode = "accept"
  /\ mode' = "byte" /\ pull' = FALSE
  /\ UNCHANGED <<got, refusals, taken, missed>>

(* A START that the codec may not see. *)
Miss ==
  /\ UNCHANGED <<mode, got, pull, refusals, taken>>
  /\ Race /\ missed' = TRUE

Quiet ==
  /\ UNCHANGED <<mode, got, pull, refusals, taken, missed>>
  /\ ~ (High /\ sda # sda') /\ ~ Race
  /\ ~ (Rises /\ mode = "byte") /\ ~ (Falls /\ (ByteDone \/ mode = "accept"))

Codec ==
  Start \/ Stop \/ TakeBit \/ Accept \/ Refuse \/ Release \/ Miss \/ Quiet

Clock == Master /\ Codec

SetupSpec == SetupInit /\ [][Clock]_setupVars /\ WF_setupVars(Clock)

-----------------------------------------------------------------------------
(* What the codec took since it last refused a byte are the words of the   *)
(* table, from the first one on and in their order, with every bit in its  *)
(* place; and the master stops only when it took all of them.              *)
WordsInOrder ==
  /\ \A i \in 1 .. Len(taken) :
       /\ i - 1 <= LADDR
       /\ \A b \in 1 .. 3 * ByteBits : taken[i][b] = Table(i - 1)[b]
  /\ ep_setup = "e5" => Len(taken) = LADDR + 1

(* Unless the codec misses a START, it is set up in the end, whichever     *)
(* bytes it refuses first.                                                 *)
CodecConfigured == <>(ep_setup = "e5" \/ missed)
=============================================================================
