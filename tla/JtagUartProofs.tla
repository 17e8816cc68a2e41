-------------------------- MODULE JtagUartProofs ---------------------------
(***************************************************************************)
(* The JTAG UART driver, for every size of the rings and of the FIFOs and  *)
(* every operation the program may call.                                   *)
(*                                                                         *)
(* Inv is inductive.  Beyond the types it says what each party has read    *)
(* and still counts on while the other moves: the stretch of tx_buf that   *)
(* write is filling stays free (TxInv), the stretch of rx_buf that read is *)
(* emptying stays full (RxInv), the room the interrupt routine read off    *)
(* the control register is still there (RoomInv), and an interrupt that is *)
(* off is one nobody needs (EnableInv).                                    *)
(*                                                                         *)
(* The second half reads the two rings as sequences and shows that every   *)
(* step of the driver is a step, or a stutter, of a pipe of bytes in each  *)
(* direction (BytePipe): the ring lemmas say what moving one index adds to *)
(* or takes from the sequence.                                             *)
(***************************************************************************)
EXTENDS JtagUart, SequenceTheorems, TLAPS

(* write: the stretch of the ring it fills is free, and stays free while   *)
(* the interrupt routine takes bytes out; then it holds the bytes.         *)
TxInv ==
  /\ pc \in {"copy", "publish"} =>
       /\ in = tx_in /\ n \in 1 .. Len(data) /\ in + n <= LEN
       /\ tx_out > in => in + n < tx_out
       /\ tx_out = 0 => in + n < LEN
  /\ pc = "publish" => \A k \in 1 .. n : tx_buf[in + k - 1] = data[k]

(* The room the interrupt routine counts on in the FIFO is there.          *)
RoomInv ==
  /\ isr.at \in {"receive", "received"} =>
       isr.control.space <= FifoDepth - Len(wfifo)
  /\ isr.at = "send" => isr.space <= FifoDepth - Len(wfifo)

(* read: the stretch of the ring it empties is full, and stays full while  *)
(* the interrupt routine puts bytes in.                                    *)
RxInv ==
  /\ pc \in {"take", "listen"} => left > 0
  /\ pc \in {"unload", "release"} =>
       /\ out = rx_out /\ n \in 1 .. left /\ out + n <= LEN
       /\ rx_in >= rx_out => out + n <= rx_in
  /\ Len(typed) <= 1

(* The interrupts that are needed are on.                                  *)
EnableInv ==
  /\ EnablesAgree /\ NoByteStranded /\ NeverDeaf
  /\ pc \in {"take", "taken"} /\ moved = 0 => "RE" \in ien \/ rx_in # rx_out
  /\ isr.at = "received" => ~isr.avail

Inv == TypeOK /\ TxInv /\ RoomInv /\ RxInv /\ EnableInv

-----------------------------------------------------------------------------
(* Arithmetic of the rings.                                                *)
LEMMA ModFacts ==
  ASSUME NEW m \in Nat \ {0}, NEW x \in Int
  PROVE  /\ x \in 0 .. m - 1 => x % m = x
         /\ x \in m .. 2 * m - 1 => x % m = x - m
         /\ x \in -m .. -1 => x % m = x + m
OBVIOUS

LEMMA NextSlotFacts ==
  ASSUME NEW k \in Slot
  PROVE  /\ NextSlot(k) \in Slot
         /\ k = LEN - 1 => NextSlot(k) = 0
         /\ k # LEN - 1 => NextSlot(k) = k + 1
<1>1. LEN \in Nat /\ LEN > 1 /\ k \in 0 .. LEN - 1
  BY DriverAssumption DEF Slot
<1>2. k = LEN - 1 => (k + 1) % LEN = 0
  BY <1>1, ModFacts
<1>3. k # LEN - 1 => (k + 1) % LEN = k + 1
  BY <1>1, ModFacts
<1> QED
  BY <1>1, <1>2, <1>3 DEF NextSlot, Slot

(* Where a stretch of m slots from k on ends.                              *)
LEMMA EndSlotFacts ==
  ASSUME NEW k \in Slot, NEW m \in Nat, k + m <= LEN
  PROVE  /\ (k + m) % LEN \in Slot
         /\ k + m = LEN => (k + m) % LEN = 0
         /\ k + m < LEN => (k + m) % LEN = k + m
<1>1. LEN \in Nat /\ LEN > 1 /\ k \in 0 .. LEN - 1
  BY DriverAssumption DEF Slot
<1>2. k + m = LEN => (k + m) % LEN = 0
  <2>1. LEN \in LEN .. 2 * LEN - 1 /\ LEN - LEN = 0
    BY <1>1
  <2>2. LEN % LEN = 0
    BY <1>1, <2>1, ModFacts
  <2> QED
    BY <2>2
<1>3. k + m < LEN => (k + m) % LEN = k + m
  <2>1. /\ LEN \in Nat \ {0} /\ k + m \in Int
        /\ k + m < LEN => k + m \in 0 .. LEN - 1
    BY <1>1
  <2>2. \A x \in Int : x \in 0 .. LEN - 1 => x % LEN = x
    BY <2>1, ModFacts
  <2> QED
    BY <2>1, <2>2
<1> QED
  BY <1>1, <1>2, <1>3 DEF Slot

-----------------------------------------------------------------------------
(* Types.                                                                  *)
IsrType ==
  {Idle, [at |-> "control"]}
  \union [at : {"receive", "received"}, avail : BOOLEAN,
          control : [RI : BOOLEAN, WI : BOOLEAN, space : 0 .. FifoDepth]]
  \union [at : {"send"}, space : 0 .. FifoDepth]

LEMMA IsrFields ==
  ASSUME isr \in IsrType
  PROVE  /\ isr.at \in {"idle", "control", "receive", "received", "send"}
         /\ isr = Idle <=> isr.at = "idle"
         /\ isr.at \in {"receive", "received"} =>
              /\ isr \in [at : {"receive", "received"}, avail : BOOLEAN,
                          control : [RI : BOOLEAN, WI : BOOLEAN,
                                     space : 0 .. FifoDepth]]
              /\ isr.avail \in BOOLEAN /\ isr.control.WI \in BOOLEAN
              /\ isr.control.space \in 0 .. FifoDepth
         /\ isr.at = "send" =>
              /\ isr \in [at : {"send"}, space : 0 .. FifoDepth]
              /\ isr.space \in 0 .. FifoDepth
BY DEF IsrType, Idle

(* The places of the program, the rest of the types.                       *)
Place == {"idle", "fill", "copy", "publish", "kick", "wait", "check",
          "written", "take", "unload", "release", "listen", "taken", "drain"}

RingType ==
  /\ tx_buf \in [Slot -> Byte] /\ rx_buf \in [Slot -> Byte]
  /\ tx_in \in Slot /\ tx_out \in Slot /\ rx_in \in Slot /\ rx_out \in Slot

DeviceType ==
  /\ irq_enable \subseteq {"RE", "WE"} /\ ien \subseteq {"RE", "WE"}
  /\ host_inactive \in 0 .. INT_MAX - 2 /\ timeout \in 2 .. INT_MAX
  /\ wfifo \in Seq(Byte) /\ Len(wfifo) <= FifoDepth
  /\ rfifo \in Seq(Byte) /\ Len(rfifo) <= FifoDepth
  /\ ac \in BOOLEAN /\ pause_irq \in BOOLEAN
  /\ attached \in BOOLEAN /\ typed \in Seq(Byte) /\ heard \in Seq(Byte)

LocalType ==
  /\ pc \in Place
  /\ data \in Seq(Byte) /\ left \in Nat /\ nonblock \in BOOLEAN
  /\ in \in Slot /\ out \in Slot /\ n \in 0 .. LEN - 1 /\ moved \in Nat
  /\ got \in Seq(Byte)

LEMMA TypeSplit ==
  TypeOK <=> RingType /\ DeviceType /\ LocalType /\ isr \in IsrType
BY DEF TypeOK, RingType, DeviceType, LocalType, IsrType, Place

LEMMA TypeSplitNext ==
  TypeOK' <=> RingType' /\ DeviceType' /\ LocalType' /\ (isr \in IsrType)'
BY DEF TypeOK, RingType, DeviceType, LocalType, IsrType, Place

(* Constants, and the free stretch.                                        *)
LEMMA Sizes ==
  /\ LEN \in Nat /\ LEN > 1 /\ 0 \in Slot
  /\ FifoDepth \in Nat /\ FifoDepth > 0 /\ INT_MAX \in Nat
  /\ DefaultTimeout \in 2 .. INT_MAX /\ INT_MAX >= 4
BY DriverAssumption DEF Slot

LEMMA FreeStretchFacts ==
  ASSUME NEW i \in Slot, NEW o \in Slot
  PROVE  /\ FreeStretch(i, o) \in 0 .. LEN - 1
         /\ i + FreeStretch(i, o) <= LEN
         /\ o > i => i + FreeStretch(i, o) < o
         /\ o = 0 => i + FreeStretch(i, o) < LEN
BY Sizes DEF FreeStretch, Slot

LEMMA ShorterFacts ==
  ASSUME NEW x \in Nat, NEW y \in Nat
  PROVE  /\ Shorter(x, y) \in Nat /\ Shorter(x, y) <= x /\ Shorter(x, y) <= y
         /\ Shorter(x, y) = 0 => x = 0 \/ y = 0
BY DEF Shorter

-----------------------------------------------------------------------------
(* Type correctness, action by action.                                     *)
LEMMA ReturnTypes ==
  ASSUME LocalType, Return, got' = got
  PROVE  LocalType'
<1>1. <<>> \in Seq(Byte)
  BY EmptySeq
<1>2. 0 \in Slot /\ 0 \in 0 .. LEN - 1
  BY Sizes
<1>3. data' \in Seq(Byte) /\ pc' = "idle" /\ left' = 0 /\ nonblock' = FALSE
  BY <1>1 DEF Return
<1>4. in' \in Slot /\ out' \in Slot /\ n' \in 0 .. LEN - 1 /\ moved' = 0
  BY <1>2 DEF Return
<1> QED
  BY <1>3, <1>4 DEF LocalType, Place

LEMMA CallTypes ==
  ASSUME TypeOK, Calls
  PROVE  TypeOK'
<1>1. RingType /\ DeviceType /\ LocalType /\ isr \in IsrType
  BY TypeSplit
<1>2. ASSUME NEW k \in 0 .. MaxCount, NEW bytes \in [1 .. k -> Byte],
             NEW nb \in BOOLEAN, WriteCall(bytes, nb)
      PROVE  TypeOK'
  <2>1. bytes \in Seq(Byte)
    <3>1. k \in Nat
      BY DriverAssumption
    <3> QED
      BY <3>1, SeqDef
  <2>2. LocalType'
    BY <1>1, <1>2, <2>1 DEF WriteCall, LocalType, Place
  <2>3. RingType' /\ DeviceType' /\ (isr \in IsrType)'
    BY <1>1, <1>2 DEF WriteCall, RingType, DeviceType, ring, device, host
  <2> QED
    BY <2>2, <2>3, TypeSplitNext
<1>3. ASSUME NEW k \in 0 .. MaxCount, NEW nb \in BOOLEAN, ReadCall(k, nb)
      PROVE  TypeOK'
  <2>1. LocalType'
    BY <1>1, <1>3, DriverAssumption DEF ReadCall, LocalType, Place
  <2>2. RingType' /\ DeviceType' /\ (isr \in IsrType)'
    BY <1>1, <1>3 DEF ReadCall, RingType, DeviceType, ring, device, host
  <2> QED
    BY <2>1, <2>2, TypeSplitNext
<1>4. ASSUME NEW nb \in BOOLEAN, CloseCall(nb)
      PROVE  TypeOK'
  <2>1. LocalType'
    BY <1>1, <1>4 DEF CloseCall, LocalType, Place
  <2>2. RingType' /\ DeviceType' /\ (isr \in IsrType)'
    BY <1>1, <1>4 DEF CloseCall, RingType, DeviceType, ring, device, host
  <2> QED
    BY <2>1, <2>2, TypeSplitNext
<1>5. ASSUME NEW t \in 0 .. INT_MAX, Ioctl(t)
      PROVE  TypeOK'
  <2>1. timeout' \in 2 .. INT_MAX
    BY <1>5, Sizes DEF Ioctl
  <2>2. DeviceType'
    BY <1>1, <1>5, <2>1 DEF Ioctl, DeviceType, device, host
  <2>3. RingType' /\ LocalType' /\ (isr \in IsrType)'
    BY <1>1, <1>5 DEF Ioctl, RingType, LocalType, ring, local
  <2> QED
    BY <2>2, <2>3, TypeSplitNext
<1> QED
  BY <1>2, <1>3, <1>4, <1>5 DEF Calls

LEMMA WriteTypes ==
  ASSUME TypeOK, TxInv
  PROVE  /\ WriteFill => TypeOK'
         /\ WriteCopy => TypeOK'
         /\ WritePublish => TypeOK'
         /\ WriteKick \/ WriteWait \/ WriteCheck \/ WriteReturn => TypeOK'
<1>1. RingType /\ DeviceType /\ LocalType /\ isr \in IsrType
  BY TypeSplit
<1>2. ASSUME WriteFill PROVE TypeOK'
  <2>1. in' \in Slot /\ out' \in Slot /\ n' \in 0 .. LEN - 1
    <3>1. FreeStretch(tx_in, tx_out) \in 0 .. LEN - 1 /\ Len(data) \in Nat
      BY <1>1, FreeStretchFacts DEF RingType, LocalType
    <3>2. /\ Shorter(FreeStretch(tx_in, tx_out), Len(data)) \in Nat
          /\ Shorter(FreeStretch(tx_in, tx_out), Len(data))
               <= FreeStretch(tx_in, tx_out)
      BY <3>1, ShorterFacts
    <3> QED
      BY <1>1, <1>2, <3>1, <3>2, Sizes DEF WriteFill, RingType, LocalType
  <2>2. LocalType'
    BY <1>1, <1>2, <2>1 DEF WriteFill, LocalType, Place
  <2>3. RingType' /\ DeviceType' /\ (isr \in IsrType)'
    BY <1>1, <1>2 DEF WriteFill, RingType, DeviceType, ring, device, host
  <2> QED
    BY <2>2, <2>3, TypeSplitNext
<1>3. ASSUME WriteCopy PROVE TypeOK'
  <2>1. /\ in \in Slot /\ n \in 1 .. Len(data) /\ data \in Seq(Byte)
        /\ tx_buf \in [Slot -> Byte]
    BY <1>1, <1>3 DEF WriteCopy, At, TxInv, LocalType, RingType
  <2>2. ASSUME NEW k \in Slot, k \in in .. in + n - 1
        PROVE  data[k - in + 1] \in Byte
    <3>1. k - in + 1 \in 1 .. Len(data)
      BY <2>1, <2>2, Sizes DEF Slot
    <3> QED
      BY <2>1, <3>1, ElementOfSeq
  <2>3. tx_buf' \in [Slot -> Byte]
    BY <1>3, <2>1, <2>2 DEF WriteCopy
  <2>4. RingType'
    BY <1>1, <1>3, <2>3 DEF WriteCopy, RingType
  <2>5. LocalType' /\ DeviceType' /\ (isr \in IsrType)'
    BY <1>1, <1>3 DEF WriteCopy, LocalType, DeviceType, local, device, host, Place
  <2> QED
    BY <2>4, <2>5, TypeSplitNext
<1>4. ASSUME WritePublish PROVE TypeOK'
  <2>1. /\ in \in Slot /\ n \in 1 .. Len(data) /\ data \in Seq(Byte)
        /\ in + n <= LEN /\ moved \in Nat
    BY <1>1, <1>4 DEF WritePublish, At, TxInv, LocalType
  <2>2. tx_in' \in Slot
    BY <1>4, <2>1, EndSlotFacts DEF WritePublish
  <2>3. data' \in Seq(Byte)
    <3>1. \A i \in n + 1 .. Len(data) : data[i] \in Byte
      BY <2>1, ElementOfSeq
    <3>2. SubSeq(data, n + 1, Len(data)) \in Seq(Byte)
      BY <2>1, <3>1, SubSeqProperties
    <3> QED
      BY <1>4, <3>2 DEF WritePublish
  <2>4. RingType'
    BY <1>1, <1>4, <2>2 DEF WritePublish, RingType
  <2>5. moved' \in Nat
    BY <1>4, <2>1 DEF WritePublish
  <2>6. LocalType'
    BY <1>1, <1>4, <2>3, <2>5 DEF WritePublish, LocalType, Place
  <2>7. DeviceType' /\ (isr \in IsrType)'
    BY <1>1, <1>4 DEF WritePublish, DeviceType, device, host
  <2> QED
    BY <2>4, <2>6, <2>7, TypeSplitNext
<1>5. ASSUME WriteKick PROVE TypeOK'
  <2>1. DeviceType'
    BY <1>1, <1>5 DEF WriteKick, Enable, DeviceType, host
  <2>2. LocalType' /\ RingType' /\ (isr \in IsrType)'
    BY <1>1, <1>5 DEF WriteKick, LocalType, RingType, ring, local, Place
  <2> QED
    BY <2>1, <2>2, TypeSplitNext
<1>6. ASSUME WriteWait \/ WriteCheck PROVE TypeOK'
  <2>1. LocalType'
    BY <1>1, <1>6 DEF WriteWait, WriteCheck, LocalType, local, Place
  <2>2. RingType' /\ DeviceType' /\ (isr \in IsrType)'
    BY <1>1, <1>6
    DEF WriteWait, WriteCheck, RingType, DeviceType, ring, device, host
  <2> QED
    BY <2>1, <2>2, TypeSplitNext
<1>7. ASSUME WriteReturn PROVE TypeOK'
  <2>1. LocalType'
    BY <1>1, <1>7, ReturnTypes DEF WriteReturn
  <2>2. RingType' /\ DeviceType' /\ (isr \in IsrType)'
    BY <1>1, <1>7
    DEF WriteReturn, RingType, DeviceType, ring, device, host
  <2> QED
    BY <2>1, <2>2, TypeSplitNext
<1> QED
  BY <1>2, <1>3, <1>4, <1>5, <1>6, <1>7

LEMMA ReadTypes ==
  ASSUME TypeOK, RxInv
  PROVE  /\ ReadTake => TypeOK'
         /\ ReadUnload => TypeOK'
         /\ ReadRelease => TypeOK'
         /\ ReadListen \/ ReadReturn \/ CloseReturn => TypeOK'
<1>1. RingType /\ DeviceType /\ LocalType /\ isr \in IsrType
  BY TypeSplit
<1>2. ASSUME ReadTake PROVE TypeOK'
  <2> DEFINE m == IF rx_in >= rx_out THEN rx_in - rx_out ELSE LEN - rx_out
  <2>1. m \in 0 .. LEN - 1 /\ left \in Nat
    BY <1>1, Sizes DEF RingType, LocalType, Slot
  <2>3. n' = Shorter(m, left)
    BY <1>2 DEF ReadTake
  <2> HIDE DEF m
  <2>2. Shorter(m, left) \in Nat /\ Shorter(m, left) <= m
    BY <2>1, Sizes, ShorterFacts
  <2>4. n' \in 0 .. LEN - 1
    BY <2>1, <2>2, <2>3, Sizes
  <2>5. LocalType'
    BY <1>1, <1>2, <2>4 DEF ReadTake, RingType, LocalType, Place
  <2>6. RingType' /\ DeviceType' /\ (isr \in IsrType)'
    BY <1>1, <1>2 DEF ReadTake, RingType, DeviceType, ring, device, host
  <2> QED
    BY <2>5, <2>6, TypeSplitNext
<1>3. ASSUME ReadUnload PROVE TypeOK'
  <2>1. /\ out \in Slot /\ n \in Nat /\ out + n <= LEN
        /\ rx_buf \in [Slot -> Byte] /\ got' = [k \in 1 .. n |-> rx_buf[out + k - 1]]
    BY <1>1, <1>3 DEF ReadUnload, At, RxInv, LocalType, RingType
  <2>2. \A k \in 1 .. n : out + k - 1 \in Slot
    BY <2>1, Sizes DEF Slot
  <2>3. got' \in [1 .. n -> Byte]
    BY <2>1, <2>2
  <2>4. got' \in Seq(Byte)
    BY <2>1, <2>3, SeqDef
  <2>5. LocalType'
    BY <1>1, <1>3, <2>4 DEF ReadUnload, LocalType, Place
  <2>6. RingType' /\ DeviceType' /\ (isr \in IsrType)'
    BY <1>1, <1>3 DEF ReadUnload, RingType, DeviceType, ring, device, host
  <2> QED
    BY <2>5, <2>6, TypeSplitNext
<1>4. ASSUME ReadRelease PROVE TypeOK'
  <2>1. /\ out \in Slot /\ n \in 1 .. left /\ out + n <= LEN
        /\ left \in Nat /\ moved \in Nat
    BY <1>1, <1>4 DEF ReadRelease, At, RxInv, LocalType
  <2>2. rx_out' \in Slot
    BY <1>4, <2>1, EndSlotFacts DEF ReadRelease
  <2>3. moved' \in Nat /\ left' \in Nat
    BY <1>4, <2>1 DEF ReadRelease
  <2>4. RingType'
    BY <1>1, <1>4, <2>2 DEF ReadRelease, RingType
  <2>5. LocalType'
    BY <1>1, <1>4, <2>3 DEF ReadRelease, LocalType, Place
  <2>6. DeviceType' /\ (isr \in IsrType)'
    BY <1>1, <1>4 DEF ReadRelease, DeviceType, device, host
  <2> QED
    BY <2>4, <2>5, <2>6, TypeSplitNext
<1>5. ASSUME ReadListen PROVE TypeOK'
  <2>1. LocalType'
    BY <1>1, <1>5 DEF ReadListen, LocalType, local, Place
  <2>2. RingType' /\ DeviceType' /\ (isr \in IsrType)'
    BY <1>1, <1>5 DEF ReadListen, RingType, DeviceType, ring, device, host
  <2> QED
    BY <2>1, <2>2, TypeSplitNext
<1>6. ASSUME ReadReturn PROVE TypeOK'
  <2>1. LocalType'
    BY <1>1, <1>6, ReturnTypes DEF ReadReturn
  <2>2. DeviceType'
    BY <1>1, <1>6 DEF ReadReturn, Enable, DeviceType, host
  <2>3. RingType' /\ (isr \in IsrType)'
    BY <1>1, <1>6 DEF ReadReturn, RingType, ring
  <2> QED
    BY <2>1, <2>2, <2>3, TypeSplitNext
<1>7. ASSUME CloseReturn PROVE TypeOK'
  <2>1. LocalType'
    BY <1>1, <1>7, ReturnTypes DEF CloseReturn
  <2>2. RingType' /\ DeviceType' /\ (isr \in IsrType)'
    BY <1>1, <1>7 DEF CloseReturn, RingType, DeviceType, ring, device, host
  <2> QED
    BY <2>1, <2>2, TypeSplitNext
<1> QED
  BY <1>2, <1>3, <1>4, <1>5, <1>6, <1>7

LEMMA ControlType ==
  ASSUME DeviceType
  PROVE  /\ Control \in [RI : BOOLEAN, WI : BOOLEAN, space : 0 .. FifoDepth]
         /\ Control.WI = WI /\ Control.space = FifoDepth - Len(wfifo)
         /\ FifoDepth - Len(wfifo) \in 0 .. FifoDepth
<1>1. RI \in BOOLEAN /\ WI \in BOOLEAN
  BY DEF RI, WI
<1>2. FifoDepth - Len(wfifo) \in 0 .. FifoDepth
  BY Sizes DEF DeviceType
<1> QED
  BY <1>1, <1>2 DEF Control

(* What each step of the interrupt routine makes of its own record.        *)
LEMMA IsrSteps ==
  ASSUME DeviceType, isr \in IsrType
  PROVE  /\ IsrControl =>
              /\ isr' \in IsrType
              /\ isr'.at # "received"
              /\ isr'.at = "receive" => isr'.control.space = FifoDepth - Len(wfifo)
              /\ isr'.at = "send" => isr'.space = FifoDepth - Len(wfifo)
         /\ IsrReceive =>
              /\ isr' \in IsrType /\ isr'.at \in {"receive", "received"}
              /\ isr'.control = isr.control
              /\ isr'.at = "received" => ~isr'.avail
         /\ IsrReceived =>
              /\ isr' \in IsrType /\ isr'.at \in {"send", "control"}
              /\ isr'.at = "send" => isr'.space = isr.control.space
         /\ IsrSend =>
              /\ isr' \in IsrType /\ isr'.at = "send"
              /\ isr'.space = isr.space - 1
         /\ IsrSent => isr' \in IsrType /\ isr'.at = "control"
<1>1. ASSUME IsrControl
      PROVE  /\ isr' \in IsrType
             /\ isr'.at # "received"
             /\ isr'.at = "receive" => isr'.control.space = FifoDepth - Len(wfifo)
             /\ isr'.at = "send" => isr'.space = FifoDepth - Len(wfifo)
  <2>1. CASE RI
    <3>1. isr' = [at |-> "receive", control |-> Control, avail |-> TRUE]
      BY <1>1, <2>1 DEF IsrControl
    <3>2. isr' \in [at : {"receive", "received"}, avail : BOOLEAN,
                    control : [RI : BOOLEAN, WI : BOOLEAN, space : 0 .. FifoDepth]]
      BY <3>1, ControlType
    <3> QED
      BY <3>1, <3>2, ControlType DEF IsrType
  <2>2. CASE ~RI /\ WI
    <3>1. isr' = [at |-> "send", space |-> Control.space]
      BY <1>1, <2>2 DEF IsrControl
    <3>2. isr' \in [at : {"send"}, space : 0 .. FifoDepth]
      BY <3>1, ControlType
    <3> QED
      BY <3>1, <3>2, ControlType DEF IsrType
  <2>3. CASE ~RI /\ ~WI
    <3>1. isr' = Idle
      BY <1>1, <2>3 DEF IsrControl
    <3> QED
      BY <3>1 DEF IsrType, Idle
  <2> QED
    BY <2>1, <2>2, <2>3
<1>2. ASSUME IsrReceive
      PROVE  /\ isr' \in IsrType /\ isr'.at \in {"receive", "received"}
             /\ isr'.control = isr.control
             /\ isr'.at = "received" => ~isr'.avail
  <2>1. /\ isr \in [at : {"receive", "received"}, avail : BOOLEAN,
                    control : [RI : BOOLEAN, WI : BOOLEAN, space : 0 .. FifoDepth]]
        /\ isr.at = "receive"
    BY <1>2, IsrFields DEF IsrReceive
  <2>2. CASE rfifo = <<>>
    <3>1. isr' = [isr EXCEPT !.at = "received", !.avail = FALSE]
      BY <1>2, <2>2 DEF IsrReceive
    <3> QED
      BY <2>1, <3>1 DEF IsrType
  <2>3. CASE rfifo # <<>>
    <3>1. PICK more \in BOOLEAN : isr' = [isr EXCEPT !.avail = more]
      BY <1>2, <2>3 DEF IsrReceive
    <3> QED
      BY <2>1, <3>1 DEF IsrType
  <2> QED
    BY <2>2, <2>3
<1>3. ASSUME IsrReceived
      PROVE  /\ isr' \in IsrType /\ isr'.at \in {"send", "control"}
             /\ isr'.at = "send" => isr'.space = isr.control.space
  <2>1. isr.control.space \in 0 .. FifoDepth
    BY <1>3, IsrFields DEF IsrReceived
  <2>2. CASE isr.control.WI
    <3>1. isr' = [at |-> "send", space |-> isr.control.space]
      BY <1>3, <2>2 DEF IsrReceived
    <3> QED
      BY <2>1, <3>1 DEF IsrType
  <2>3. CASE ~isr.control.WI
    <3>1. isr' = [at |-> "control"]
      BY <1>3, <2>3 DEF IsrReceived
    <3> QED
      BY <3>1 DEF IsrType
  <2> QED
    BY <2>2, <2>3
<1>4. ASSUME IsrSend
      PROVE  /\ isr' \in IsrType /\ isr'.at = "send"
             /\ isr'.space = isr.space - 1
  <2>1. /\ isr \in [at : {"send"}, space : 0 .. FifoDepth]
        /\ isr.at = "send" /\ isr.space \in 0 .. FifoDepth
    BY <1>4, IsrFields DEF IsrSend
  <2>2. isr' = [isr EXCEPT !.space = isr.space - 1] /\ isr.space > 0
    BY <1>4 DEF IsrSend
  <2>3. isr.space - 1 \in 0 .. FifoDepth
    BY <2>1, <2>2, Sizes
  <2> QED
    BY <2>1, <2>2, <2>3 DEF IsrType
<1>5. ASSUME IsrSent PROVE isr' \in IsrType /\ isr'.at = "control"
  BY <1>5 DEF IsrSent, IsrType
<1> QED
  BY <1>1, <1>2, <1>3, <1>4, <1>5

LEMMA IsrTypes ==
  ASSUME TypeOK, Isr
  PROVE  TypeOK'
<1>1. RingType /\ DeviceType /\ LocalType /\ isr \in IsrType
  BY TypeSplit
<1>2. ASSUME IsrControl PROVE TypeOK'
  <2>1. RingType' /\ DeviceType' /\ LocalType'
    BY <1>1, <1>2
    DEF IsrControl, RingType, DeviceType, LocalType, ring, device, local, host
  <2> QED
    BY <1>1, <1>2, <2>1, IsrSteps, TypeSplitNext
<1>3. ASSUME IsrReceive PROVE TypeOK'
  <2>1. /\ rfifo' \in Seq(Byte) /\ Len(rfifo') <= FifoDepth
        /\ rx_buf' \in [Slot -> Byte] /\ rx_in' \in Slot
    <3>1. CASE rfifo = <<>>
      BY <1>1, <1>3, <3>1 DEF IsrReceive, RingType, DeviceType
    <3>2. CASE rfifo # <<>>
      <4>1. /\ Head(rfifo) \in Byte /\ Tail(rfifo) \in Seq(Byte)
            /\ Len(Tail(rfifo)) = Len(rfifo) - 1
        BY <1>1, <3>2, HeadTailProperties DEF DeviceType
      <4>2. /\ rfifo' = Tail(rfifo) /\ rx_in' = NextSlot(rx_in)
            /\ rx_buf' = [rx_buf EXCEPT ![rx_in] = Head(rfifo)]
        BY <1>3, <3>2 DEF IsrReceive
      <4>3. Len(rfifo) \in Nat /\ FifoDepth \in Nat
        BY <1>1, Sizes DEF DeviceType
      <4> QED
        BY <1>1, <4>1, <4>2, <4>3, NextSlotFacts DEF RingType, DeviceType
    <3> QED
      BY <3>1, <3>2
  <2>2. RingType' /\ DeviceType' /\ LocalType'
    BY <1>1, <1>3, <2>1
    DEF IsrReceive, RingType, DeviceType, LocalType, local, host
  <2> QED
    BY <1>1, <1>3, <2>2, IsrSteps, TypeSplitNext
<1>4. ASSUME IsrReceived PROVE TypeOK'
  <2>1. irq_enable' \subseteq {"RE", "WE"} /\ ien' \subseteq {"RE", "WE"}
    BY <1>1, <1>4 DEF IsrReceived, Disable, DeviceType
  <2>2. RingType' /\ DeviceType' /\ LocalType'
    BY <1>1, <1>4, <2>1
    DEF IsrReceived, RingType, DeviceType, LocalType, ring, local, host
  <2> QED
    BY <1>1, <1>4, <2>2, IsrSteps, TypeSplitNext
<1>5. ASSUME IsrSend PROVE TypeOK'
  <2>1. /\ tx_buf[tx_out] \in Byte /\ tx_out' \in Slot
    BY <1>1, <1>5, NextSlotFacts DEF IsrSend, RingType
  <2>2. wfifo' \in Seq(Byte) /\ Len(wfifo') <= FifoDepth
    <3>1. /\ Append(wfifo, tx_buf[tx_out]) \in Seq(Byte)
          /\ Len(Append(wfifo, tx_buf[tx_out])) = Len(wfifo) + 1
      BY <1>1, <2>1, AppendProperties DEF DeviceType
    <3>2. wfifo' = IF Len(wfifo) < FifoDepth THEN Append(wfifo, tx_buf[tx_out])
                                             ELSE wfifo
      BY <1>5 DEF IsrSend
    <3>3. Len(wfifo) \in Nat /\ FifoDepth \in Nat
      BY <1>1, Sizes DEF DeviceType
    <3> QED
      BY <1>1, <3>1, <3>2, <3>3 DEF DeviceType
  <2>3. RingType' /\ DeviceType' /\ LocalType'
    BY <1>1, <1>5, <2>1, <2>2
    DEF IsrSend, RingType, DeviceType, LocalType, local, host
  <2> QED
    BY <1>1, <1>5, <2>3, IsrSteps, TypeSplitNext
<1>6. ASSUME IsrSent PROVE TypeOK'
  <2>1. irq_enable' \subseteq {"RE", "WE"} /\ ien' \subseteq {"RE", "WE"}
    BY <1>1, <1>6 DEF IsrSent, Disable, DeviceType
  <2>2. RingType' /\ DeviceType' /\ LocalType'
    BY <1>1, <1>6, <2>1
    DEF IsrSent, RingType, DeviceType, LocalType, ring, local, host
  <2> QED
    BY <1>1, <1>6, <2>2, IsrSteps, TypeSplitNext
<1> QED
  BY <1>2, <1>3, <1>4, <1>5, <1>6 DEF Isr

LEMMA TimeoutTypes ==
  ASSUME TypeOK, Timeout
  PROVE  TypeOK'
<1>1. RingType /\ DeviceType /\ LocalType /\ isr \in IsrType
  BY TypeSplit
<1>2. host_inactive' \in 0 .. INT_MAX - 2
  BY <1>1, Sizes DEF Timeout, DeviceType
<1>3. DeviceType'
  BY <1>1, <1>2 DEF Timeout, ClearActivity, DeviceType, host
<1>4. RingType' /\ LocalType' /\ (isr \in IsrType)'
  BY <1>1 DEF Timeout, RingType, LocalType, ring, local
<1> QED
  BY <1>3, <1>4, TypeSplitNext

LEMMA HostTypes ==
  ASSUME TypeOK, RxInv, Host
  PROVE  TypeOK'
<1>1. RingType /\ DeviceType /\ LocalType /\ isr \in IsrType
  BY TypeSplit
<1>2. RingType' /\ LocalType' /\ (isr \in IsrType)'
  BY <1>1 DEF Host, HostSend, HostPause, HostRead, Detach, HostType,
              RingType, LocalType, ring, local
<1>3. ASSUME HostSend PROVE DeviceType'
  <2>1. /\ rfifo \o typed \in Seq(Byte)
        /\ Len(rfifo \o typed) = Len(rfifo) + Len(typed)
    BY <1>1, ConcatProperties DEF DeviceType
  <2>2. Len(rfifo) \in Nat /\ Len(typed) \in Nat /\ FifoDepth \in Nat
    BY <1>1, Sizes DEF DeviceType
  <2>3. rfifo' \in Seq(Byte) /\ Len(rfifo') <= FifoDepth
    BY <1>3, <2>1, <2>2 DEF HostSend, RxInv
  <2>4. typed' \in Seq(Byte)
    BY <1>3, EmptySeq DEF HostSend
  <2> QED
    BY <1>1, <1>3, <2>3, <2>4 DEF HostSend, DeviceType
<1>4. ASSUME HostPause PROVE DeviceType'
  BY <1>1, <1>4 DEF HostPause, DeviceType, host
<1>5. ASSUME HostRead PROVE DeviceType'
  <2>1. /\ Head(wfifo) \in Byte /\ Tail(wfifo) \in Seq(Byte)
        /\ Len(Tail(wfifo)) = Len(wfifo) - 1
    BY <1>1, <1>5, HeadTailProperties DEF HostRead, DeviceType
  <2>2. Len(wfifo) \in Nat /\ FifoDepth \in Nat
    BY <1>1, Sizes DEF DeviceType
  <2>3. wfifo' \in Seq(Byte) /\ Len(wfifo') <= FifoDepth
    BY <1>1, <1>5, <2>1, <2>2 DEF HostRead, DeviceType
  <2>4. heard' \in Seq(Byte)
    BY <1>5, <2>1 DEF HostRead
  <2> QED
    BY <1>1, <1>5, <2>3, <2>4 DEF HostRead, DeviceType
<1>6. ASSUME Detach PROVE DeviceType'
  BY <1>1, <1>6 DEF Detach, DeviceType, device
<1>7. ASSUME NEW b \in Keys, HostType(b) PROVE DeviceType'
  <2>1. typed' \in Seq(Byte)
    BY <1>7, DriverAssumption DEF HostType
  <2> QED
    BY <1>1, <1>7, <2>1 DEF HostType, DeviceType, device
<1> QED
  BY <1>2, <1>3, <1>4, <1>5, <1>6, <1>7, TypeSplitNext DEF Host

-----------------------------------------------------------------------------
(* The other parts of the invariant.                                       *)

LEMMA TxStep ==
  ASSUME TypeOK, TxInv, Next
  PROVE  TxInv'
<1>1. RingType /\ LocalType
  BY TypeSplit
<1>2. ASSUME WriteFill PROVE TxInv'
  <2> DEFINE room == FreeStretch(tx_in, tx_out)
  <2>1. /\ room \in Nat /\ tx_in + room <= LEN /\ tx_in \in Nat
        /\ tx_out > tx_in => tx_in + room < tx_out
        /\ tx_out = 0 => tx_in + room < LEN
        /\ Len(data) \in Nat /\ LEN \in Nat /\ tx_out \in Nat
    <3>1. /\ room \in 0 .. LEN - 1 /\ tx_in + room <= LEN
          /\ tx_out > tx_in => tx_in + room < tx_out
          /\ tx_out = 0 => tx_in + room < LEN
      BY <1>1, FreeStretchFacts DEF RingType
    <3>2. LEN \in Nat /\ tx_in \in Nat /\ tx_out \in Nat /\ Len(data) \in Nat
      BY <1>1, Sizes DEF RingType, LocalType, Slot
    <3> HIDE DEF room
    <3> QED
      BY <3>1, <3>2
  <2>2. /\ Shorter(room, Len(data)) \in Nat
        /\ Shorter(room, Len(data)) <= room
        /\ Shorter(room, Len(data)) <= Len(data)
    BY <2>1, ShorterFacts
  <2>3. /\ pc' \in {"kick", "copy"} /\ data' = data
        /\ tx_in' = tx_in /\ tx_out' = tx_out
        /\ pc' = "copy" => /\ in' = tx_in /\ n' = Shorter(room, Len(data))
                           /\ n' # 0
    BY <1>2 DEF WriteFill, ring
  <2> HIDE DEF room
  <2> QED
    BY <2>1, <2>2, <2>3 DEF TxInv
<1>3. ASSUME WriteCopy PROVE TxInv'
  <2>1. /\ pc = "copy" /\ pc' = "publish" /\ in' = in /\ n' = n
        /\ data' = data /\ tx_in' = tx_in /\ tx_out' = tx_out
        /\ tx_buf' = [k \in Slot |-> IF k \in in .. in + n - 1
                                     THEN data[k - in + 1] ELSE tx_buf[k]]
    BY <1>3 DEF WriteCopy, At, local
  <2>2. in \in Nat /\ n \in Nat /\ in + n <= LEN /\ LEN \in Nat
    BY <1>1, <2>1, Sizes DEF TxInv, LocalType, Slot
  <2>3. ASSUME NEW k \in 1 .. n
        PROVE  tx_buf'[in + k - 1] = data[k]
    <3>1. in + k - 1 \in Slot /\ in + k - 1 \in in .. in + n - 1
      BY <2>2 DEF Slot
    <3>2. PICK j \in Slot : j = in + k - 1
      BY <3>1
    <3>3. tx_buf'[j] = data[j - in + 1]
      BY <2>1, <3>1, <3>2
    <3>4. j - in + 1 = k
      BY <2>2, <3>2
    <3> QED
      BY <3>2, <3>3, <3>4
  <2> QED
    BY <2>1, <2>3 DEF TxInv
<1>4. ASSUME IsrSend PROVE TxInv'
  <2>1. /\ UNCHANGED <<pc, in, n, data, tx_in, tx_buf>>
        /\ tx_out' = NextSlot(tx_out) /\ tx_out # tx_in
    BY <1>4 DEF IsrSend, local
  <2>2. tx_in \in 0 .. LEN - 1 /\ tx_out \in 0 .. LEN - 1 /\ LEN \in Nat
    BY <1>1, Sizes DEF RingType, Slot
  <2>3. /\ tx_out = LEN - 1 => tx_out' = 0
        /\ tx_out # LEN - 1 => tx_out' = tx_out + 1
    BY <1>1, <2>1, NextSlotFacts DEF RingType
  <2>4. n \in Nat
    BY <1>1, Sizes DEF LocalType
  <2> QED
    BY <2>1, <2>2, <2>3, <2>4 DEF TxInv
<1>5. \/ WriteFill \/ WriteCopy \/ IsrSend
      \/ pc' \notin {"copy", "publish"}
      \/ UNCHANGED <<pc, in, n, data, tx_in, tx_out, tx_buf>>
  <2>1. Calls => \/ pc' \notin {"copy", "publish"}
                 \/ UNCHANGED <<pc, in, n, data, tx_in, tx_out, tx_buf>>
    BY DEF Calls, WriteCall, ReadCall, CloseCall, Ioctl, ring, local
  <2>2. Proceed => \/ WriteFill \/ WriteCopy
                   \/ pc' \notin {"copy", "publish"}
    BY DEF Proceed, WritePublish, WriteKick, WriteWait, WriteCheck,
           WriteReturn, ReadTake, ReadUnload, ReadRelease, ReadListen,
           ReadReturn, CloseReturn, Return
  <2>3. Isr => \/ IsrSend
               \/ UNCHANGED <<pc, in, n, data, tx_in, tx_out, tx_buf>>
    BY DEF Isr, IsrControl, IsrReceive, IsrReceived, IsrSent, ring, local
  <2>4. Timeout \/ Host => UNCHANGED <<pc, in, n, data, tx_in, tx_out, tx_buf>>
    BY DEF Timeout, Host, HostSend, HostPause, HostRead, Detach, HostType,
           ring, local
  <2> QED
    BY <2>1, <2>2, <2>3, <2>4 DEF Next
<1> QED
  BY <1>2, <1>3, <1>4, <1>5 DEF TxInv

LEMMA RoomStep ==
  ASSUME TypeOK, RoomInv, Next
  PROVE  RoomInv'
<1>1. DeviceType /\ isr \in IsrType /\ Len(wfifo) \in Nat /\ FifoDepth \in Nat
  BY TypeSplit, Sizes DEF DeviceType
<1>2. ASSUME IsrControl PROVE RoomInv'
  <2>1. wfifo' = wfifo
    BY <1>2 DEF IsrControl, device
  <2>2. /\ isr'.at # "received"
        /\ isr'.at = "receive" => isr'.control.space = FifoDepth - Len(wfifo)
        /\ isr'.at = "send" => isr'.space = FifoDepth - Len(wfifo)
    BY <1>1, <1>2, IsrSteps
  <2> QED
    BY <1>1, <2>1, <2>2 DEF RoomInv
<1>3. ASSUME IsrReceive PROVE RoomInv'
  <2>1. wfifo' = wfifo /\ isr.at = "receive"
    BY <1>3 DEF IsrReceive
  <2>2. isr'.at \in {"receive", "received"} /\ isr'.control = isr.control
    BY <1>1, <1>3, IsrSteps
  <2> QED
    BY <2>1, <2>2 DEF RoomInv
<1>4. ASSUME IsrReceived PROVE RoomInv'
  <2>1. wfifo' = wfifo /\ isr.at \in {"receive", "received"}
    BY <1>4 DEF IsrReceived
  <2>2. /\ isr'.at \in {"send", "control"}
        /\ isr'.at = "send" => isr'.space = isr.control.space
    BY <1>1, <1>4, IsrSteps
  <2> QED
    BY <2>1, <2>2 DEF RoomInv
<1>5. ASSUME IsrSend PROVE RoomInv'
  <2>1. /\ isr.at = "send" /\ isr.space > 0 /\ isr.space \in 0 .. FifoDepth
        /\ wfifo' = IF Len(wfifo) < FifoDepth
                    THEN Append(wfifo, tx_buf[tx_out]) ELSE wfifo
    BY <1>1, <1>5, IsrFields DEF IsrSend
  <2>2. isr'.at = "send" /\ isr'.space = isr.space - 1
    BY <1>1, <1>5, IsrSteps
  <2>3. tx_buf[tx_out] \in Byte
    BY TypeSplit DEF RingType
  <2>4. Len(Append(wfifo, tx_buf[tx_out])) = Len(wfifo) + 1
    BY <1>1, <2>3, AppendProperties DEF DeviceType
  <2> QED
    BY <1>1, <2>1, <2>2, <2>4 DEF RoomInv
<1>6. ASSUME IsrSent PROVE RoomInv'
  BY <1>1, <1>6, IsrSteps DEF RoomInv
<1>7. ASSUME HostRead PROVE RoomInv'
  <2>1. isr' = isr /\ wfifo' = Tail(wfifo) /\ wfifo # <<>>
    BY <1>7 DEF HostRead
  <2>2. Len(Tail(wfifo)) = Len(wfifo) - 1
    BY <1>1, <2>1, HeadTailProperties DEF DeviceType
  <2>3. /\ isr.at \in {"receive", "received"} => isr.control.space \in 0 .. FifoDepth
        /\ isr.at = "send" => isr.space \in 0 .. FifoDepth
    BY <1>1, IsrFields
  <2> QED
    BY <1>1, <2>1, <2>2, <2>3 DEF RoomInv
<1>8. Isr \/ HostRead \/ UNCHANGED <<isr, wfifo>>
  <2>1. Calls => UNCHANGED <<isr, wfifo>>
    BY DEF Calls, WriteCall, ReadCall, CloseCall, Ioctl, device
  <2>2. Proceed => UNCHANGED <<isr, wfifo>>
    BY DEF Proceed, WriteFill, WriteCopy, WritePublish, WriteKick, WriteWait,
           WriteCheck, WriteReturn, ReadTake, ReadUnload, ReadRelease,
           ReadListen, ReadReturn, CloseReturn, device
  <2>3. Timeout \/ Host => HostRead \/ UNCHANGED <<isr, wfifo>>
    BY DEF Timeout, Host, HostSend, HostPause, Detach, HostType, device
  <2> QED
    BY <2>1, <2>2, <2>3 DEF Next
<1> QED
  BY <1>2, <1>3, <1>4, <1>5, <1>6, <1>7, <1>8 DEF RoomInv, Isr

LEMMA RxStep ==
  ASSUME TypeOK, RxInv, Next
  PROVE  RxInv'
<1>1. RingType /\ DeviceType /\ LocalType
  BY TypeSplit
<1>2. /\ rx_in \in 0 .. LEN - 1 /\ rx_out \in 0 .. LEN - 1 /\ LEN \in Nat
      /\ left \in Nat /\ n \in Nat /\ out \in Nat
  BY <1>1, Sizes DEF RingType, LocalType, Slot
<1>3. Len(typed') <= 1
  <2>1. HostSend => typed' = <<>>
    BY DEF HostSend
  <2>2. \A b \in Keys : HostType(b) => typed' = <<b>>
    BY DEF HostType
  <2>3. \/ typed' = typed \/ HostSend \/ \E b \in Keys : HostType(b)
    <3>1. Calls => typed' = typed
      BY DEF Calls, WriteCall, ReadCall, CloseCall, Ioctl, host
    <3>2. Proceed => typed' = typed
      BY DEF Proceed, WriteFill, WriteCopy, WritePublish, WriteKick, WriteWait,
             WriteCheck, WriteReturn, ReadTake, ReadUnload, ReadRelease,
             ReadListen, ReadReturn, CloseReturn, host
    <3>3. Isr \/ Timeout => typed' = typed
      BY DEF Isr, IsrControl, IsrReceive, IsrReceived, IsrSend, IsrSent,
             Timeout, host
    <3>4. HostPause \/ HostRead \/ Detach => typed' = typed
      BY DEF HostPause, HostRead, Detach, host
    <3> QED
      BY <3>1, <3>2, <3>3, <3>4 DEF Next, Host
  <2>4. Len(<<>>) = 0 /\ \A b \in Keys : Len(<<b>>) <= 1
    OBVIOUS
  <2>5. CASE HostSend
    BY <2>1, <2>4, <2>5
  <2>6. ASSUME NEW b \in Keys, HostType(b) PROVE Len(typed') <= 1
    BY <2>2, <2>4, <2>6
  <2> QED
    BY <2>3, <2>5, <2>6 DEF RxInv
<1>4. ASSUME ReadTake PROVE RxInv'
  <2> DEFINE m == IF rx_in >= rx_out THEN rx_in - rx_out ELSE LEN - rx_out
  <2>1. /\ m \in Nat /\ rx_out + m <= LEN
        /\ rx_in >= rx_out => rx_out + m = rx_in
    BY <1>2
  <2>2. /\ out' = rx_out /\ n' = Shorter(m, left) /\ rx_in' = rx_in
        /\ rx_out' = rx_out /\ left' = left
        /\ pc' = "unload" => n' > 0
        /\ pc = "take" /\ pc' \in {"unload", "taken", "listen"}
    BY <1>4 DEF ReadTake, At, ring
  <2> HIDE DEF m
  <2>3. /\ Shorter(m, left) \in Nat /\ Shorter(m, left) <= m
        /\ Shorter(m, left) <= left
    BY <1>2, <2>1, ShorterFacts
  <2> QED
    BY <1>2, <1>3, <2>1, <2>2, <2>3 DEF RxInv
<1>5. ASSUME ReadUnload PROVE RxInv'
  BY <1>3, <1>5 DEF ReadUnload, At, RxInv, ring
<1>6. ASSUME ReadRelease PROVE RxInv'
  BY <1>2, <1>3, <1>6 DEF ReadRelease, RxInv
<1>7. ASSUME IsrReceive PROVE RxInv'
  <2>1. /\ UNCHANGED <<pc, left, out, n, rx_out>> /\ ~RxFull
        /\ rx_in' = rx_in \/ rx_in' = NextSlot(rx_in)
    BY <1>7 DEF IsrReceive, local
  <2>2. /\ NextSlot(rx_in) # rx_out
        /\ rx_in = LEN - 1 => NextSlot(rx_in) = 0
        /\ rx_in # LEN - 1 => NextSlot(rx_in) = rx_in + 1
    BY <1>1, <2>1, NextSlotFacts DEF RingType, RxFull
  <2> QED
    BY <1>2, <1>3, <2>1, <2>2 DEF RxInv
<1>8. ASSUME NEW k \in 0 .. MaxCount, NEW nb \in BOOLEAN, ReadCall(k, nb)
      PROVE  RxInv'
  BY <1>3, <1>8 DEF ReadCall, RxInv
<1>9. ASSUME ReadListen PROVE RxInv'
  <2>1. pc = "listen" /\ pc' \in {"taken", "take"} /\ left' = left
    BY <1>9 DEF ReadListen, At, local
  <2> QED
    BY <1>3, <2>1 DEF RxInv
<1>10. \/ ReadTake \/ ReadUnload \/ ReadRelease \/ ReadListen \/ IsrReceive
       \/ \E k \in 0 .. MaxCount, nb \in BOOLEAN : ReadCall(k, nb)
       \/ pc' \notin {"take", "listen", "unload", "release"}
       \/ UNCHANGED <<pc, left, out, n, rx_in, rx_out>>
  <2>1. Calls => \/ \E k \in 0 .. MaxCount, nb \in BOOLEAN : ReadCall(k, nb)
                 \/ pc' \notin {"take", "listen", "unload", "release"}
                 \/ UNCHANGED <<pc, left, out, n, rx_in, rx_out>>
    BY DEF Calls, WriteCall, CloseCall, Ioctl, ring, local
  <2>2. Proceed => \/ ReadTake \/ ReadUnload \/ ReadRelease \/ ReadListen
                   \/ pc' \notin {"take", "listen", "unload", "release"}
    BY DEF Proceed, WriteFill, WriteCopy, WritePublish, WriteKick, WriteWait,
           WriteCheck, WriteReturn, ReadReturn, CloseReturn, Return
  <2>3. Isr => \/ IsrReceive
               \/ UNCHANGED <<pc, left, out, n, rx_in, rx_out>>
    BY DEF Isr, IsrControl, IsrReceived, IsrSend, IsrSent, ring, local
  <2>4. Timeout \/ Host => UNCHANGED <<pc, left, out, n, rx_in, rx_out>>
    BY DEF Timeout, Host, HostSend, HostPause, HostRead, Detach, HostType,
           ring, local
  <2> QED
    BY <2>1, <2>2, <2>3, <2>4 DEF Next
<1>11. CASE pc' \notin {"take", "listen", "unload", "release"}
  BY <1>3, <1>11 DEF RxInv
<1>12. CASE UNCHANGED <<pc, left, out, n, rx_in, rx_out>>
  BY <1>3, <1>12 DEF RxInv
<1> QED
  BY <1>4, <1>5, <1>6, <1>7, <1>8, <1>9, <1>10, <1>11, <1>12

(* Who changes the enable bits, and how.                                   *)
LEMMA EnableSteps ==
  ASSUME EnablesAgree, Next
  PROVE  /\ EnablesAgree'
         /\ \/ ien' = ien
            \/ WriteKick /\ ien' = ien \union {"WE"}
            \/ ReadReturn /\ MadeRoom /\ ien' = ien \union {"RE"}
            \/ IsrReceived /\ Leftover /\ ien' = ien \ {"RE"}
            \/ IsrSent /\ NoMoreToSend /\ ien' = ien \ {"WE"}
<1>1. Calls => UNCHANGED <<irq_enable, ien>>
  BY DEF Calls, WriteCall, ReadCall, CloseCall, Ioctl, device
<1>2. Proceed => \/ UNCHANGED <<irq_enable, ien>>
                 \/ /\ WriteKick \/ (ReadReturn /\ MadeRoom)
                    /\ ien' = irq_enable'
                    /\ WriteKick => irq_enable' = irq_enable \union {"WE"}
                    /\ ReadReturn => irq_enable' = irq_enable \union {"RE"}
  BY DEF Proceed, WriteFill, WriteCopy, WritePublish, WriteKick, WriteWait,
         WriteCheck, WriteReturn, ReadTake, ReadUnload, ReadRelease,
         ReadListen, ReadReturn, CloseReturn, device, Enable, At
<1>3. Isr => \/ UNCHANGED <<irq_enable, ien>>
             \/ /\ IsrReceived /\ Leftover /\ ien' = irq_enable'
                /\ irq_enable' = irq_enable \ {"RE"}
             \/ /\ IsrSent /\ NoMoreToSend /\ ien' = irq_enable'
                /\ irq_enable' = irq_enable \ {"WE"}
  BY DEF Isr, IsrControl, IsrReceive, IsrReceived, IsrSend, IsrSent, Disable,
         device
<1>4. Timeout => irq_enable' = irq_enable /\ ien' \in {ien, irq_enable}
  BY DEF Timeout, ClearActivity
<1>5. Host => UNCHANGED <<irq_enable, ien>>
  BY DEF Host, HostSend, HostPause, HostRead, Detach, HostType, device
<1> QED
  BY <1>1, <1>2, <1>3, <1>4, <1>5 DEF Next, EnablesAgree

LEMMA StrandedStep ==
  ASSUME TypeOK, EnablesAgree, NoByteStranded, Next
  PROVE  NoByteStranded'
<1> DEFINE Putting == pc \in {"fill", "copy", "publish", "kick"}
<1>1. CASE WriteKick
  <2>1. ien' = irq_enable \union {"WE"}
    BY <1>1 DEF WriteKick, Enable
  <2> QED
    BY <2>1 DEF NoByteStranded
<1>2. CASE IsrSent /\ NoMoreToSend
  <2>1. tx_out' = tx_out /\ tx_in' = tx_in /\ tx_out = tx_in
    BY <1>2, TypeSplit, IsrFields DEF IsrSent, NoMoreToSend, ring
  <2> QED
    BY <2>1 DEF NoByteStranded
<1>3. CASE ~WriteKick /\ ~(IsrSent /\ NoMoreToSend)
  <2>1. "WE" \in ien => "WE" \in ien'
    BY <1>3, EnableSteps
  <2>2. \/ Putting'
        \/ /\ tx_in' = tx_in /\ (tx_out' = tx_out \/ tx_out # tx_in)
           /\ Putting => Putting'
    <3>1. Calls => Putting' \/ (tx_in' = tx_in /\ tx_out' = tx_out /\ ~Putting)
      BY DEF Calls, WriteCall, ReadCall, CloseCall, Ioctl, At, ring
    <3>2. Proceed => Putting' \/ (tx_in' = tx_in /\ tx_out' = tx_out /\ ~Putting)
      BY <1>3 DEF Proceed, WriteFill, WriteCopy, WritePublish, WriteWait,
             WriteCheck, WriteReturn, ReadTake, ReadUnload, ReadRelease,
             ReadListen, ReadReturn, CloseReturn, At, ring
    <3>3. Isr => /\ tx_in' = tx_in /\ pc' = pc
                 /\ tx_out' = tx_out \/ tx_out # tx_in
      BY DEF Isr, IsrControl, IsrReceive, IsrReceived, IsrSend, IsrSent, ring
    <3>4. Timeout \/ Host => tx_in' = tx_in /\ tx_out' = tx_out /\ pc' = pc
      BY DEF Timeout, Host, HostSend, HostPause, HostRead, Detach, HostType, ring
    <3> QED
      BY <3>1, <3>2, <3>3, <3>4 DEF Next
  <2> QED
    BY <2>1, <2>2 DEF NoByteStranded
<1> QED
  BY <1>1, <1>2, <1>3

(* The receive interrupt is on, or a read finds something.                 *)
Listening == "RE" \in ien \/ rx_in # rx_out

LEMMA DeafStep ==
  ASSUME TypeOK, RxInv, EnableInv, Next
  PROVE  /\ NeverDeaf'
         /\ (pc \in {"take", "taken"} /\ moved = 0 => "RE" \in ien \/ rx_in # rx_out)'
         /\ (isr.at = "received" => ~isr.avail)'
<1>1. RingType /\ DeviceType /\ LocalType /\ isr \in IsrType
  BY TypeSplit
<1>2. /\ pc \notin {"take", "taken"} => Listening
      /\ pc \in {"take", "taken"} /\ moved = 0 => Listening
      /\ isr.at = "received" => ~isr.avail
  BY DEF EnableInv, NeverDeaf, Listening
<1>3. (isr.at = "received" => ~isr.avail)'
  <2>1. Isr => (isr'.at = "received" => ~isr'.avail)
    BY <1>1, IsrSteps DEF Isr
  <2>2. Isr \/ isr' = isr
    <3>1. Calls => isr' = isr
      BY DEF Calls, WriteCall, ReadCall, CloseCall, Ioctl
    <3>2. Proceed => isr' = isr
      BY DEF Proceed, WriteFill, WriteCopy, WritePublish, WriteKick, WriteWait,
             WriteCheck, WriteReturn, ReadTake, ReadUnload, ReadRelease,
             ReadListen, ReadReturn, CloseReturn
    <3>3. Timeout \/ Host => isr' = isr
      BY DEF Timeout, Host, HostSend, HostPause, HostRead, Detach, HostType
    <3> QED
      BY <3>1, <3>2, <3>3 DEF Next
  <2> QED
    BY <1>2, <2>1, <2>2
<1>4. SUFFICES \/ Listening'
               \/ pc' \in {"take", "taken"} /\ moved' # 0
  BY <1>3 DEF NeverDeaf, Listening
<1>5. CASE IsrReceived /\ Leftover
  <2>1. isr.at = "receive" /\ RxFull
    BY <1>2, <1>5 DEF IsrReceived, Leftover
  <2>2. rx_in' = rx_in /\ rx_out' = rx_out
    BY <1>5 DEF IsrReceived, ring
  <2>3. rx_in \in 0 .. LEN - 1 /\ LEN > 1 /\ LEN \in Nat
    BY <1>1, Sizes DEF RingType, Slot
  <2>4. /\ rx_in = LEN - 1 => NextSlot(rx_in) = 0
        /\ rx_in # LEN - 1 => NextSlot(rx_in) = rx_in + 1
    BY <1>1, NextSlotFacts DEF RingType
  <2>5. rx_in # rx_out
    BY <2>1, <2>3, <2>4 DEF RxFull
  <2> QED
    BY <2>2, <2>5 DEF Listening
<1>6. CASE ReadReturn
  <2>1. CASE moved > 0
    BY <1>6, <2>1 DEF ReadReturn, MadeRoom, Enable, Listening
  <2>2. CASE moved = 0
    <3>1. Listening
      BY <1>2, <1>6, <2>2 DEF ReadReturn, At
    <3>2. UNCHANGED <<ien, rx_in, rx_out>>
      BY <1>6, <2>2 DEF ReadReturn, MadeRoom, ring
    <3> QED
      BY <3>1, <3>2 DEF Listening
  <2> QED
    BY <1>1, <2>1, <2>2 DEF LocalType
<1>7. CASE ~(IsrReceived /\ Leftover) /\ ~ReadReturn
  <2>1. "RE" \in ien => "RE" \in ien'
    BY <1>7, EnableSteps DEF EnableInv
  <2>2. CASE IsrReceive
    <3>1. /\ ~RxFull /\ UNCHANGED <<pc, moved, rx_out>>
          /\ rx_in' = rx_in \/ rx_in' = NextSlot(rx_in)
      BY <2>2 DEF IsrReceive, local
    <3> QED
      BY <1>2, <2>1, <3>1 DEF RxFull, Listening
  <2>3. CASE ReadTake
    <3>1. /\ UNCHANGED <<rx_in, rx_out, moved, left>> /\ pc = "take" /\ left > 0
          /\ pc' = "unload" => n' > 0
          /\ pc' = "listen" => moved = 0
          /\ pc' \in {"unload", "taken", "listen"}
          /\ n' = Shorter(IF rx_in >= rx_out THEN rx_in - rx_out
                          ELSE LEN - rx_out, left)
      BY <1>1, <2>3 DEF ReadTake, At, ring, RxInv, LocalType
    <3>2. CASE pc' = "unload"
      <4>1. rx_in = rx_out => n' = 0
        BY <1>1, <3>1, Sizes DEF RingType, LocalType, Slot, Shorter
      <4> QED
        BY <3>1, <3>2, <4>1 DEF Listening
    <3>3. CASE pc' = "listen"
      BY <1>2, <2>1, <3>1, <3>3 DEF Listening
    <3>4. CASE pc' = "taken"
      BY <1>2, <2>1, <3>1, <3>4 DEF Listening
    <3> QED
      BY <3>1, <3>2, <3>3, <3>4
  <2>4. CASE ReadRelease
    BY <1>1, <2>4 DEF ReadRelease, RxInv, LocalType, At
  <2>5. CASE ReadListen
    <3>1. pc = "listen" /\ UNCHANGED <<rx_in, rx_out>>
      BY <2>5 DEF ReadListen, At, ring
    <3> QED
      BY <1>2, <2>1, <3>1 DEF Listening
  <2>6. CASE ~IsrReceive /\ ~ReadTake /\ ~ReadRelease /\ ~ReadListen
    <3>1. /\ UNCHANGED <<rx_in, rx_out>>
          /\ pc \notin {"take", "taken"} \/ UNCHANGED <<pc, moved>>
      <4>1. Calls => /\ UNCHANGED <<rx_in, rx_out>>
                     /\ pc \notin {"take", "taken"} \/ UNCHANGED <<pc, moved>>
        BY DEF Calls, WriteCall, ReadCall, CloseCall, Ioctl, At, ring, local
      <4>2. Proceed => UNCHANGED <<rx_in, rx_out>> /\ pc \notin {"take", "taken"}
        BY <1>7, <2>6 DEF Proceed, WriteFill, WriteCopy, WritePublish,
           WriteKick, WriteWait, WriteCheck, WriteReturn, ReadUnload,
           CloseReturn, At, ring
      <4>3. Isr => UNCHANGED <<rx_in, rx_out, pc, moved>>
        BY <2>6 DEF Isr, IsrControl, IsrReceived, IsrSend, IsrSent, ring, local
      <4>4. Timeout \/ Host => UNCHANGED <<rx_in, rx_out, pc, moved>>
        BY DEF Timeout, Host, HostSend, HostPause, HostRead, Detach, HostType,
               ring, local
      <4> QED
        BY <4>1, <4>2, <4>3, <4>4 DEF Next
    <3> QED
      BY <1>2, <2>1, <3>1 DEF Listening
  <2> QED
    BY <2>2, <2>3, <2>4, <2>5, <2>6
<1> QED
  BY <1>5, <1>6, <1>7

-----------------------------------------------------------------------------
LEMMA InitInv == Init => Inv
<1> SUFFICES ASSUME Init PROVE Inv
  OBVIOUS
<1>1. <<>> \in Seq(Byte) /\ Len(<<>>) = 0
  BY EmptySeq
<1>2. TypeOK
  BY <1>1, Sizes DEF Init, TypeOK, Idle
<1>3. TxInv /\ RxInv
  BY <1>1 DEF Init, TxInv, RxInv
<1>4. RoomInv /\ EnableInv
  BY DEF Init, Idle, RoomInv, EnableInv, EnablesAgree, NoByteStranded, NeverDeaf
<1> QED
  BY <1>2, <1>3, <1>4 DEF Inv

LEMMA NextInv ==
  ASSUME Inv, Next
  PROVE  Inv'
<1>1. TypeOK'
  BY CallTypes, WriteTypes, ReadTypes, IsrTypes, TimeoutTypes, HostTypes
  DEF Inv, Next, Proceed
<1>2. TxInv' /\ RoomInv' /\ RxInv'
  BY TxStep, RoomStep, RxStep DEF Inv
<1>3. EnableInv'
  BY EnableSteps, StrandedStep, DeafStep DEF Inv, EnableInv
<1> QED
  BY <1>1, <1>2, <1>3 DEF Inv

LEMMA StutterInv ==
  ASSUME Inv, UNCHANGED vars
  PROVE  Inv'
<1>1. TypeOK'
  BY DEF Inv, TypeOK, vars, ring, device, local, host
<1>2. TxInv' /\ RoomInv' /\ RxInv'
  BY DEF Inv, TxInv, RoomInv, RxInv, vars, ring, device, local, host
<1>3. EnableInv'
  BY DEF Inv, EnableInv, EnablesAgree, NoByteStranded, NeverDeaf,
         vars, ring, device, local, host
<1> QED
  BY <1>1, <1>2, <1>3 DEF Inv

(* The invariant holds in every reachable state.                           *)
THEOREM DriverInvariant == Spec => []Inv
<1>1. Init => Inv
  BY InitInv
<1>2. Inv /\ [Next]_vars => Inv'
  BY NextInv, StutterInv
<1> QED
  BY <1>1, <1>2, PTL DEF Spec

(* Every variable keeps its type, the indices stay inside the rings.       *)
THEOREM DriverTyped == Spec => []TypeOK
<1>1. Inv => TypeOK
  BY DEF Inv
<1> QED
  BY <1>1, DriverInvariant, PTL

(* Bytes in the ring of altera_avalon_jtag_uart_write never wait with the  *)
(* transmit interrupt off.                                                 *)
THEOREM DriverSends == Spec => []NoByteStranded
<1>1. Inv => NoByteStranded
  BY DEF Inv, EnableInv
<1> QED
  BY <1>1, DriverInvariant, PTL

(* The receive interrupt that altera_avalon_jtag_uart_irq turns off when   *)
(* its ring is full is turned on by the read that makes room.              *)
THEOREM DriverListens == Spec => []NeverDeaf
<1>1. Inv => NeverDeaf
  BY DEF Inv, EnableInv
<1> QED
  BY <1>1, DriverInvariant, PTL
-----------------------------------------------------------------------------
(* The rings as sequences.                                                 *)
Count(o, i) == IF i >= o THEN i - o ELSE i - o + LEN
SlotAt(o, k) == IF o + k - 1 < LEN THEN o + k - 1 ELSE o + k - 1 - LEN

LEMMA OnlyOne == \A m \in Nat : m # 0 /\ m <= 1 => m = 1
  OBVIOUS

LEMMA ByteConcat ==
  \A s, t, w \in Seq(Byte) : (s \o t) \o w = s \o (t \o w)
  BY ConcatAssociative

(* The bytes of m slots from slot o on.                                    *)
Stretch(buf, o, m) == [k \in 1 .. m |-> buf[o + k - 1]]

LEMMA StretchFacts ==
  ASSUME NEW buf \in [Slot -> Byte], NEW o \in Slot, NEW m \in Nat,
         o + m <= LEN
  PROVE  /\ Stretch(buf, o, m) \in Seq(Byte) /\ Len(Stretch(buf, o, m)) = m
         /\ \A k \in 1 .. m : Stretch(buf, o, m)[k] = buf[o + k - 1]
<1>1. LEN \in Nat /\ o \in 0 .. LEN - 1
  BY Sizes DEF Slot
<1>2. \A k \in 1 .. m : o + k - 1 \in Slot
  BY <1>1 DEF Slot
<1>3. Stretch(buf, o, m) \in [1 .. m -> Byte]
  BY <1>2 DEF Stretch
<1>4. Stretch(buf, o, m) \in Seq(Byte)
  BY <1>3, SeqDef
<1>5. \A k \in 1 .. m : Stretch(buf, o, m)[k] = buf[o + k - 1]
  BY DEF Stretch
<1>6. Len(Stretch(buf, o, m)) = m
  BY <1>3, <1>4, LenProperties
<1> QED
  BY <1>4, <1>5, <1>6

LEMMA RingFacts ==
  ASSUME NEW buf \in [Slot -> Byte], NEW o \in Slot, NEW i \in Slot
  PROVE  /\ Count(o, i) \in 0 .. LEN - 1
         /\ Ring(buf, o, i) \in Seq(Byte) /\ Len(Ring(buf, o, i)) = Count(o, i)
         /\ \A k \in 1 .. Count(o, i) :
              SlotAt(o, k) \in Slot /\ Ring(buf, o, i)[k] = buf[SlotAt(o, k)]
<1>1. LEN \in Nat \ {0} /\ o \in 0 .. LEN - 1 /\ i \in 0 .. LEN - 1
  BY Sizes DEF Slot
<1>2. Count(o, i) \in 0 .. LEN - 1
  BY <1>1 DEF Count
<1>3. (i - o) % LEN = Count(o, i)
  <2>1. /\ i - o \in Int
        /\ i >= o => i - o \in 0 .. LEN - 1
        /\ i < o => i - o \in -LEN .. -1
    BY <1>1
  <2>2. /\ i - o \in 0 .. LEN - 1 => (i - o) % LEN = i - o
        /\ i - o \in -LEN .. -1 => (i - o) % LEN = i - o + LEN
    BY <1>1, <2>1, ModFacts
  <2> QED
    BY <1>1, <2>1, <2>2 DEF Count
<1>4. ASSUME NEW k \in 1 .. Count(o, i)
      PROVE  SlotAt(o, k) \in Slot /\ (o + k - 1) % LEN = SlotAt(o, k)
  <2> DEFINE x == o + k - 1
  <2>1. /\ x \in Int
        /\ x < LEN => x \in 0 .. LEN - 1
        /\ x >= LEN => x \in LEN .. 2 * LEN - 1
    BY <1>1, <1>2
  <2>2. SlotAt(o, k) = IF x < LEN THEN x ELSE x - LEN
    BY <1>1 DEF SlotAt
  <2> HIDE DEF x
  <2>3. /\ x \in 0 .. LEN - 1 => x % LEN = x
        /\ x \in LEN .. 2 * LEN - 1 => x % LEN = x - LEN
    BY <1>1, <2>1, ModFacts
  <2>4. SlotAt(o, k) \in Slot /\ x % LEN = SlotAt(o, k)
    BY <1>1, <2>1, <2>2, <2>3 DEF Slot
  <2> QED
    BY <2>4 DEF x
<1>5. Ring(buf, o, i) = [k \in 1 .. Count(o, i) |-> buf[SlotAt(o, k)]]
  BY <1>3, <1>4 DEF Ring
<1>6. Ring(buf, o, i) \in [1 .. Count(o, i) -> Byte]
  BY <1>4, <1>5
<1>7. Count(o, i) \in Nat
  BY <1>1, <1>2
<1>8. Ring(buf, o, i) \in Seq(Byte)
  BY <1>6, <1>7, SeqDef
<1>9. Len(Ring(buf, o, i)) = Count(o, i)
  BY <1>6, <1>7, <1>8, LenProperties
<1> QED
  BY <1>2, <1>4, <1>5, <1>8, <1>9

(* A ring sees only the slots between its ends.                            *)
LEMMA RingSame ==
  ASSUME NEW buf \in [Slot -> Byte], NEW buf2 \in [Slot -> Byte],
         NEW o \in Slot, NEW i \in Slot,
         \A k \in 1 .. Count(o, i) : buf[SlotAt(o, k)] = buf2[SlotAt(o, k)]
  PROVE  Ring(buf, o, i) = Ring(buf2, o, i)
<1>1. /\ Ring(buf, o, i) \in Seq(Byte) /\ Ring(buf2, o, i) \in Seq(Byte)
      /\ Len(Ring(buf, o, i)) = Count(o, i)
      /\ Len(Ring(buf2, o, i)) = Count(o, i)
      /\ \A k \in 1 .. Count(o, i) : Ring(buf, o, i)[k] = Ring(buf2, o, i)[k]
  BY RingFacts
<1> QED
  BY <1>1, SeqEqual

(* Bytes put in behind the last one.                                       *)
LEMMA RingAppend ==
  ASSUME NEW buf \in [Slot -> Byte], NEW o \in Slot, NEW i \in Slot,
         NEW m \in Nat, m > 0, i + m <= LEN,
         o > i => i + m < o, o = 0 => i + m < LEN
  PROVE  Ring(buf, o, (i + m) % LEN) = Ring(buf, o, i) \o Stretch(buf, i, m)
<1>1. LEN \in Nat /\ o \in 0 .. LEN - 1 /\ i \in 0 .. LEN - 1
  BY Sizes DEF Slot
<1> DEFINE j == (i + m) % LEN
           C == Count(o, i)
           r == Ring(buf, o, i)
           t == Stretch(buf, i, m)
           u == Ring(buf, o, j)
<1>2. j \in Slot /\ (i + m = LEN => j = 0) /\ (i + m < LEN => j = i + m)
  BY EndSlotFacts
<1>3. /\ r \in Seq(Byte) /\ Len(r) = C /\ C \in 0 .. LEN - 1
      /\ \A k \in 1 .. C : r[k] = buf[SlotAt(o, k)]
  BY RingFacts
<1>4. /\ t \in Seq(Byte) /\ Len(t) = m
      /\ \A k \in 1 .. m : t[k] = buf[i + k - 1]
  BY StretchFacts
<1>5. /\ u \in Seq(Byte) /\ Len(u) = Count(o, j)
      /\ \A k \in 1 .. Count(o, j) : u[k] = buf[SlotAt(o, k)]
  BY <1>2, RingFacts
<1>6. Count(o, j) = C + m
  <2> HIDE DEF j
  <2> QED
    BY <1>1, <1>2 DEF Count
<1>7. \A k \in C + 1 .. C + m : SlotAt(o, k) = i + (k - C) - 1
  BY <1>1 DEF Count, SlotAt
<1> HIDE DEF j, C, r, t, u
<1>8. /\ r \o t \in Seq(Byte) /\ Len(r \o t) = C + m
      /\ \A k \in 1 .. C + m : (r \o t)[k] = IF k <= C THEN r[k] ELSE t[k - C]
  BY <1>3, <1>4, ConcatProperties
<1>9. ASSUME NEW k \in 1 .. C + m PROVE u[k] = (r \o t)[k]
  <2>1. u[k] = buf[SlotAt(o, k)]
    BY <1>5, <1>6
  <2>2. CASE k <= C
    <3>1. k \in 1 .. C
      BY <1>3, <2>2
    <3> QED
      BY <1>3, <1>8, <2>1, <2>2, <3>1
  <2>3. CASE k > C
    <3>1. k \in C + 1 .. C + m /\ k - C \in 1 .. m
      BY <1>1, <1>3, <2>3
    <3>2. t[k - C] = buf[i + (k - C) - 1]
      BY <1>4, <3>1
    <3>3. (r \o t)[k] = t[k - C]
      BY <1>1, <1>3, <1>8, <2>3
    <3> QED
      BY <1>7, <2>1, <3>1, <3>2, <3>3
  <2>4. k <= C \/ k > C
    BY <1>1, <1>3
  <2> QED
    BY <2>2, <2>3, <2>4
<1>10. u = r \o t
  BY <1>5, <1>6, <1>8, <1>9, SeqEqual
<1> QED
  BY <1>10 DEF j, r, t, u

(* Bytes taken out at the front.                                           *)
LEMMA RingDrop ==
  ASSUME NEW buf \in [Slot -> Byte], NEW o \in Slot, NEW i \in Slot,
         NEW m \in Nat, m > 0, o + m <= LEN, i >= o => o + m <= i
  PROVE  Ring(buf, o, i) = Stretch(buf, o, m) \o Ring(buf, (o + m) % LEN, i)
<1>1. LEN \in Nat /\ o \in 0 .. LEN - 1 /\ i \in 0 .. LEN - 1
  BY Sizes DEF Slot
<1> DEFINE j == (o + m) % LEN
           C == Count(o, i)
           r == Ring(buf, o, i)
           t == Stretch(buf, o, m)
           u == Ring(buf, j, i)
<1>2. j \in Slot /\ (o + m = LEN => j = 0) /\ (o + m < LEN => j = o + m)
  BY EndSlotFacts
<1>3. /\ r \in Seq(Byte) /\ Len(r) = C /\ C \in 0 .. LEN - 1
      /\ \A k \in 1 .. C : r[k] = buf[SlotAt(o, k)]
  BY RingFacts
<1>4. /\ t \in Seq(Byte) /\ Len(t) = m
      /\ \A k \in 1 .. m : t[k] = buf[o + k - 1]
  BY StretchFacts
<1>5. /\ u \in Seq(Byte) /\ Len(u) = Count(j, i)
      /\ \A k \in 1 .. Count(j, i) : u[k] = buf[SlotAt(j, k)]
  BY <1>2, RingFacts
<1>6. Count(j, i) = C - m /\ C >= m
  <2> HIDE DEF j
  <2> QED
    BY <1>1, <1>2 DEF Count
<1>7. \A k \in m + 1 .. C : SlotAt(o, k) = SlotAt(j, k - m)
  <2> HIDE DEF j
  <2> QED
    BY <1>1, <1>2 DEF Count, SlotAt
<1>11. \A k \in 1 .. m : SlotAt(o, k) = o + k - 1
  BY <1>1 DEF SlotAt
<1> HIDE DEF j, C, r, t, u
<1>8. /\ t \o u \in Seq(Byte) /\ Len(t \o u) = C
      /\ \A k \in 1 .. C : (t \o u)[k] = IF k <= m THEN t[k] ELSE u[k - m]
  <2>1. m + (C - m) = C
    BY <1>1, <1>3
  <2>2. /\ t \o u \in Seq(Byte) /\ Len(t \o u) = Len(t) + Len(u)
        /\ \A k \in 1 .. Len(t) + Len(u) :
             (t \o u)[k] = IF k <= Len(t) THEN t[k] ELSE u[k - Len(t)]
    BY <1>4, <1>5, ConcatProperties
  <2>3. Len(t) + Len(u) = C /\ Len(t) = m
    BY <1>4, <1>5, <1>6, <2>1
  <2> QED
    BY <2>2, <2>3
<1>9. ASSUME NEW k \in 1 .. C PROVE r[k] = (t \o u)[k]
  <2>1. r[k] = buf[SlotAt(o, k)]
    BY <1>3
  <2>2. CASE k <= m
    <3>1. k \in 1 .. m
      BY <2>2
    <3> QED
      BY <1>4, <1>8, <1>11, <2>1, <2>2, <3>1
  <2>3. CASE k > m
    <3>1. k \in m + 1 .. C /\ k - m \in 1 .. C - m
      BY <1>1, <1>3, <2>3
    <3>2. u[k - m] = buf[SlotAt(j, k - m)]
      BY <1>5, <1>6, <3>1
    <3>3. (t \o u)[k] = u[k - m]
      BY <1>8, <2>3
    <3> QED
      BY <1>7, <2>1, <3>1, <3>2, <3>3
  <2>4. k <= m \/ k > m
    BY <1>1, <1>3
  <2> QED
    BY <2>2, <2>3, <2>4
<1>10. r = t \o u
  BY <1>3, <1>8, <1>9, SeqEqual
<1> QED
  BY <1>10 DEF j, r, t, u

-----------------------------------------------------------------------------
(* Each direction is a pipe.                                               *)
TxContents == wfifo \o Ring(tx_buf, tx_out, tx_in)
RxContents == Ring(rx_buf, Unread, rx_in) \o rfifo

LEMMA TxRefines ==
  ASSUME Inv, Next
  PROVE  TxPipe!Next \/ UNCHANGED TxPipe!vars
<1>1. RingType /\ DeviceType /\ LocalType /\ TxInv /\ RoomInv /\ isr \in IsrType
  BY TypeSplit DEF Inv
<1> DEFINE r == Ring(tx_buf, tx_out, tx_in)
<1>2. /\ r \in Seq(Byte) /\ wfifo \in Seq(Byte) /\ data \in Seq(Byte)
      /\ heard \in Seq(Byte) /\ tx_buf \in [Slot -> Byte]
      /\ tx_in \in Slot /\ tx_out \in Slot /\ n \in Nat
  <2>1. tx_buf \in [Slot -> Byte] /\ tx_in \in Slot /\ tx_out \in Slot
    BY <1>1 DEF RingType
  <2>2. r \in Seq(Byte)
    BY <2>1, RingFacts
  <2>3. wfifo \in Seq(Byte) /\ heard \in Seq(Byte) /\ data \in Seq(Byte)
    BY <1>1 DEF DeviceType, LocalType
  <2>4. n \in Nat
    BY <1>1, Sizes DEF LocalType
  <2> QED
    BY <2>1, <2>2, <2>3, <2>4
<1> HIDE DEF r
<1>3. ASSUME data' \in Seq(Byte),
             UNCHANGED <<tx_buf, tx_out, tx_in, wfifo, heard>>
      PROVE  TxPipe!Next
  <2>1. TxPipe!Ask
    BY <1>3 DEF TxPipe!Ask
  <2> QED
    BY <2>1 DEF TxPipe!Next
<1>4. CASE \E k \in 0 .. MaxCount, nb \in BOOLEAN :
             \E bytes \in [1 .. k -> Byte] : WriteCall(bytes, nb)
  <2>1. PICK k \in 0 .. MaxCount, nb \in BOOLEAN :
               \E bytes \in [1 .. k -> Byte] : WriteCall(bytes, nb)
    BY <1>4
  <2>2. PICK bytes \in [1 .. k -> Byte] : WriteCall(bytes, nb)
    BY <2>1
  <2>3. k \in Nat
    BY DriverAssumption
  <2>4. bytes \in Seq(Byte)
    BY <2>3, SeqDef
  <2>5. data' = bytes /\ UNCHANGED <<tx_buf, tx_out, tx_in, wfifo, heard>>
    BY <2>2 DEF WriteCall, ring, device, host
  <2> QED
    BY <1>3, <2>4, <2>5
<1>5. CASE WriteReturn \/ ReadReturn \/ CloseReturn
  <2>1. data' = <<>> /\ UNCHANGED <<tx_buf, tx_out, tx_in, wfifo, heard>>
    BY <1>5 DEF WriteReturn, ReadReturn, CloseReturn, Return, ring, device, host
  <2>2. <<>> \in Seq(Byte)
    BY EmptySeq
  <2> QED
    BY <1>3, <2>1, <2>2
<1>6. CASE WriteCopy
  <2>1. /\ UNCHANGED <<data, tx_out, tx_in, wfifo, heard>>
        /\ tx_buf' = [k \in Slot |-> IF k \in in .. in + n - 1
                                     THEN data[k - in + 1] ELSE tx_buf[k]]
        /\ in = tx_in /\ in + n <= LEN
        /\ tx_out > in => in + n < tx_out
        /\ tx_out = 0 => in + n < LEN
    BY <1>1, <1>6 DEF WriteCopy, At, TxInv, device, local, host
  <2>2. tx_buf' \in [Slot -> Byte]
    BY <1>6, WriteTypes, TypeSplitNext DEF Inv, RingType
  <2>3. ASSUME NEW k \in 1 .. Count(tx_out, tx_in)
        PROVE  tx_buf'[SlotAt(tx_out, k)] = tx_buf[SlotAt(tx_out, k)]
    <3>1. SlotAt(tx_out, k) \in Slot
      BY <1>2, RingFacts
    <3>2. SlotAt(tx_out, k) \notin in .. in + n - 1
      BY <1>2, <2>1, Sizes DEF SlotAt, Count, Slot
    <3> QED
      BY <2>1, <3>1, <3>2
  <2>4. Ring(tx_buf', tx_out, tx_in) = r
    BY <1>2, <2>2, <2>3, RingSame DEF r
  <2> QED
    BY <2>1, <2>4 DEF TxPipe!vars, r
<1>7. CASE WritePublish
  <2>1. /\ UNCHANGED <<tx_buf, tx_out, wfifo, heard>>
        /\ tx_in' = (in + n) % LEN /\ data' = SubSeq(data, n + 1, Len(data))
        /\ in = tx_in /\ in + n <= LEN /\ n \in 1 .. Len(data)
        /\ tx_out > in => in + n < tx_out
        /\ tx_out = 0 => in + n < LEN
        /\ \A k \in 1 .. n : tx_buf[in + k - 1] = data[k]
    BY <1>1, <1>7 DEF WritePublish, At, TxInv, device, host
  <2>2. /\ Ring(tx_buf, tx_out, (tx_in + n) % LEN)
             = r \o Stretch(tx_buf, tx_in, n)
    <3>1. /\ n > 0 /\ tx_in + n <= LEN
          /\ tx_out > tx_in => tx_in + n < tx_out
          /\ tx_out = 0 => tx_in + n < LEN
      BY <1>2, <2>1
    <3> QED
      BY <1>2, <3>1, RingAppend DEF r
  <2>3. Stretch(tx_buf, tx_in, n) = SubSeq(data, 1, n)
    <3>1. /\ Stretch(tx_buf, tx_in, n) \in Seq(Byte)
          /\ Len(Stretch(tx_buf, tx_in, n)) = n
          /\ \A k \in 1 .. n : Stretch(tx_buf, tx_in, n)[k] = tx_buf[tx_in + k - 1]
      BY <1>2, <2>1, StretchFacts
    <3>2. Len(data) \in Nat /\ \A k \in 1 .. n : data[k] \in Byte
      BY <1>2, <2>1, ElementOfSeq
    <3>3. /\ SubSeq(data, 1, n) \in Seq(Byte)
          /\ Len(SubSeq(data, 1, n)) = IF 1 <= n THEN n - 1 + 1 ELSE 0
          /\ \A k \in 1 .. n - 1 + 1 : SubSeq(data, 1, n)[k] = data[1 + k - 1]
      BY <1>2, <3>2, SubSeqProperties
    <3>4. /\ Len(SubSeq(data, 1, n)) = n
          /\ \A k \in 1 .. n : SubSeq(data, 1, n)[k] = data[k]
      BY <2>1, <3>2, <3>3
    <3> QED
      BY <2>1, <3>1, <3>3, <3>4, SeqEqual
  <2>4. /\ SubSeq(data, 1, n) \in Seq(Byte)
        /\ (wfifo \o r) \o SubSeq(data, 1, n) = wfifo \o (r \o SubSeq(data, 1, n))
    <3>1. Stretch(tx_buf, tx_in, n) \in Seq(Byte)
      BY <1>2, <2>1, StretchFacts
    <3>2. SubSeq(data, 1, n) \in Seq(Byte)
      BY <2>3, <3>1
    <3>3. PICK u \in Seq(Byte) : u = SubSeq(data, 1, n)
      BY <3>2
    <3>4. (wfifo \o r) \o u = wfifo \o (r \o u)
      BY <1>2, ConcatAssociative
    <3> QED
      BY <3>2, <3>3, <3>4
  <2>5. TxContents' = TxContents \o SubSeq(data, 1, n)
    <3>1. TxContents' = wfifo \o Ring(tx_buf, tx_out, (tx_in + n) % LEN)
      BY <2>1 DEF TxContents
    <3>2. TxContents = wfifo \o r
      BY DEF TxContents, r
    <3> QED
      BY <2>2, <2>3, <2>4, <3>1, <3>2
  <2>6. TxPipe!Put(n)
    BY <2>1, <2>5 DEF TxPipe!Put, TxPipe!Take, TxPipe!Drop, TxContents
  <2> QED
    BY <2>1, <2>6 DEF TxPipe!Next
<1>8. CASE IsrSend
  <2>1. /\ UNCHANGED <<data, tx_buf, tx_in, heard>> /\ tx_out # tx_in
        /\ tx_out' = (tx_out + 1) % LEN
        /\ wfifo' = IF Len(wfifo) < FifoDepth
                    THEN Append(wfifo, tx_buf[tx_out]) ELSE wfifo
        /\ isr.at = "send" /\ isr.space > 0
    BY <1>8 DEF IsrSend, NextSlot, local, host
  <2>2. Len(wfifo) < FifoDepth
    BY <1>1, <1>2, <2>1, IsrFields, Sizes, LenProperties DEF RoomInv
  <2>3. wfifo' = wfifo \o Stretch(tx_buf, tx_out, 1)
    <3>1. /\ Stretch(tx_buf, tx_out, 1) \in Seq(Byte)
          /\ Len(Stretch(tx_buf, tx_out, 1)) = 1
          /\ Stretch(tx_buf, tx_out, 1)[1] = tx_buf[tx_out]
      <4>1. tx_out + 1 <= LEN /\ tx_out + 1 - 1 = tx_out /\ 1 \in Nat
        BY <1>2, Sizes DEF Slot
      <4>2. /\ Stretch(tx_buf, tx_out, 1) \in Seq(Byte)
            /\ Len(Stretch(tx_buf, tx_out, 1)) = 1
            /\ \A k \in 1 .. 1 :
                 Stretch(tx_buf, tx_out, 1)[k] = tx_buf[tx_out + k - 1]
        BY <1>2, <4>1, StretchFacts
      <4>3. 1 \in 1 .. 1
        OBVIOUS
      <4>4. Stretch(tx_buf, tx_out, 1)[1] = tx_buf[tx_out + 1 - 1]
        BY <4>2, <4>3
      <4> QED
        BY <4>1, <4>2, <4>4
    <3>2. Stretch(tx_buf, tx_out, 1) = <<tx_buf[tx_out]>>
      <4>1. <<tx_buf[tx_out]>> \in Seq(Byte) /\ Len(<<tx_buf[tx_out]>>) = 1
        BY <1>2
      <4>2. \A k \in 1 .. 1 : Stretch(tx_buf, tx_out, 1)[k] = <<tx_buf[tx_out]>>[k]
        BY <3>1
      <4> QED
        BY <3>1, <4>1, <4>2, SeqEqual
    <3>3. wfifo \o <<tx_buf[tx_out]>> = Append(wfifo, tx_buf[tx_out])
      BY <1>2, AppendIsConcat
    <3> QED
      BY <2>1, <2>2, <3>2, <3>3
  <2>4. r = Stretch(tx_buf, tx_out, 1) \o Ring(tx_buf, tx_out', tx_in)
    <3>1. tx_out + 1 <= LEN /\ (tx_in >= tx_out => tx_out + 1 <= tx_in)
      BY <1>2, <2>1, Sizes DEF Slot
    <3>2. r = Stretch(tx_buf, tx_out, 1) \o Ring(tx_buf, (tx_out + 1) % LEN, tx_in)
      BY <1>2, <3>1, RingDrop DEF r
    <3> QED
      BY <2>1, <3>2
  <2>5. TxContents' = TxContents
    <3>1. /\ Stretch(tx_buf, tx_out, 1) \in Seq(Byte)
          /\ Ring(tx_buf, tx_out', tx_in) \in Seq(Byte)
      <4>1. tx_out + 1 <= LEN /\ 1 \in Nat
        BY <1>2, Sizes DEF Slot
      <4>2. tx_out' \in Slot
        BY <1>2, <2>1, NextSlotFacts DEF NextSlot
      <4>3. Stretch(tx_buf, tx_out, 1) \in Seq(Byte)
        BY <1>2, <4>1, StretchFacts
      <4> QED
        BY <1>2, <4>2, <4>3, RingFacts
    <3>2. TxContents' = (wfifo \o Stretch(tx_buf, tx_out, 1))
                          \o Ring(tx_buf, tx_out', tx_in)
      BY <2>1, <2>3 DEF TxContents
    <3>3. TxContents = wfifo \o (Stretch(tx_buf, tx_out, 1)
                                   \o Ring(tx_buf, tx_out', tx_in))
      BY <2>4 DEF TxContents, r
    <3> QED
      BY <1>2, <3>1, <3>2, <3>3, ConcatAssociative
  <2> QED
    BY <2>1, <2>5 DEF TxPipe!vars, TxContents
<1>9. CASE HostRead
  <2>1. /\ UNCHANGED <<data, tx_buf, tx_in, tx_out>> /\ wfifo # <<>>
        /\ heard' = <<Head(wfifo)>> /\ wfifo' = Tail(wfifo)
    BY <1>9 DEF HostRead, ring, local
  <2> DEFINE c == wfifo \o r
  <2>2. /\ c \in Seq(Byte) /\ Len(c) = Len(wfifo) + Len(r)
        /\ \A k \in 1 .. Len(c) :
             c[k] = IF k <= Len(wfifo) THEN wfifo[k] ELSE r[k - Len(wfifo)]
        /\ Len(wfifo) \in Nat /\ Len(r) \in Nat
    BY <1>2, ConcatProperties, LenProperties
  <2>3. /\ Head(wfifo) \in Byte /\ Tail(wfifo) \in Seq(Byte)
        /\ Len(Tail(wfifo)) = Len(wfifo) - 1
        /\ \A k \in 1 .. Len(Tail(wfifo)) : Tail(wfifo)[k] = wfifo[k + 1]
        /\ Head(wfifo) = wfifo[1]
    BY <1>2, <2>1, HeadTailProperties
  <2> HIDE DEF c
  <2>4. Len(wfifo) > 0 /\ Len(c) \in Nat /\ 1 \in 1 .. Len(c)
    BY <1>2, <2>1, <2>2, EmptySeq
  <2>5. SubSeq(c, 1, 1) = heard'
    <3>1. c[1] = Head(wfifo)
      BY <2>2, <2>3, <2>4
    <3>2. SubSeq(c, 1, 1) = <<c[1]>>
      <4>1. 1 \in 1 .. 1 /\ 1 \in 1 .. Len(c) /\ 1 \in 1 .. Len(c) /\ 1 + 1 = 2
        BY <2>4
      <4>2. SubSeq(c, 1, 1) = <<c[1]>> \o SubSeq(c, 2, 1)
        BY <2>2, <4>1, SubSeqRecursiveFirst
      <4>3. SubSeq(c, 2, 1) = <<>>
        BY SubSeqEmpty
      <4>4. <<c[1]>> \in Seq(Byte)
        BY <2>2, <2>4, ElementOfSeq
      <4> QED
        BY <4>2, <4>3, <4>4, ConcatEmptySeq
    <3> QED
      BY <2>1, <3>1, <3>2
  <2>6. SubSeq(c, 2, Len(c)) = Tail(wfifo) \o r
    <3>1. \A k \in 2 .. Len(c) : c[k] \in Byte
      BY <2>2, ElementOfSeq
    <3>2. /\ SubSeq(c, 2, Len(c)) \in Seq(Byte)
          /\ Len(SubSeq(c, 2, Len(c)))
               = IF 2 <= Len(c) THEN Len(c) - 2 + 1 ELSE 0
          /\ \A k \in 1 .. Len(c) - 2 + 1 :
               SubSeq(c, 2, Len(c))[k] = c[2 + k - 1]
      BY <2>4, <3>1, SubSeqProperties
    <3>3. /\ Tail(wfifo) \o r \in Seq(Byte)
          /\ Len(Tail(wfifo) \o r) = Len(Tail(wfifo)) + Len(r)
          /\ \A k \in 1 .. Len(Tail(wfifo)) + Len(r) :
               (Tail(wfifo) \o r)[k] = IF k <= Len(Tail(wfifo))
                                       THEN Tail(wfifo)[k]
                                       ELSE r[k - Len(Tail(wfifo))]
      BY <1>2, <2>3, ConcatProperties
    <3>4. /\ Len(SubSeq(c, 2, Len(c))) = Len(c) - 1
          /\ Len(Tail(wfifo) \o r) = Len(c) - 1
      BY <2>2, <2>3, <2>4, <3>2, <3>3
    <3>5. ASSUME NEW k \in 1 .. Len(c) - 1
          PROVE  SubSeq(c, 2, Len(c))[k] = (Tail(wfifo) \o r)[k]
      <4>1. SubSeq(c, 2, Len(c))[k] = c[k + 1] /\ k + 1 \in 1 .. Len(c)
        BY <2>4, <3>2
      <4>2. CASE k <= Len(wfifo) - 1
        BY <2>2, <2>3, <2>4, <3>3, <4>1, <4>2
      <4>3. CASE k > Len(wfifo) - 1
        <5>1. (Tail(wfifo) \o r)[k] = r[k - (Len(wfifo) - 1)]
          BY <2>2, <2>3, <2>4, <3>3, <4>3
        <5>2. c[k + 1] = r[k + 1 - Len(wfifo)]
          BY <2>2, <4>1, <4>3
        <5>3. k + 1 - Len(wfifo) = k - (Len(wfifo) - 1)
          BY <2>2
        <5> QED
          BY <4>1, <5>1, <5>2, <5>3
      <4>4. k <= Len(wfifo) - 1 \/ k > Len(wfifo) - 1
        BY <2>2
      <4> QED
        BY <4>2, <4>3, <4>4
    <3> QED
      BY <3>2, <3>3, <3>4, <3>5, SeqEqual
  <2>7. TxContents = c
    BY DEF TxContents, c, r
  <2>8. TxContents' = Tail(wfifo) \o r
    BY <2>1 DEF TxContents, r
  <2>9. TxPipe!Get(1)
    <3>1. /\ heard' = SubSeq(TxContents, 1, 1)
          /\ TxContents' = SubSeq(TxContents, 2, Len(TxContents))
      BY <2>5, <2>6, <2>7, <2>8
    <3>2. 1 + 1 = 2
      OBVIOUS
    <3> QED
      BY <2>1, <3>1, <3>2 DEF TxPipe!Get, TxPipe!Take, TxPipe!Drop, TxContents
  <2> QED
    BY <2>4, <2>7, <2>9 DEF TxPipe!Next, TxContents
<1>10. CASE UNCHANGED <<data, wfifo, tx_buf, tx_out, tx_in, heard>>
  BY <1>10 DEF TxPipe!vars
<1>11. \/ \E k \in 0 .. MaxCount, nb \in BOOLEAN :
            \E bytes \in [1 .. k -> Byte] : WriteCall(bytes, nb)
       \/ WriteReturn \/ ReadReturn \/ CloseReturn
       \/ WriteCopy \/ WritePublish \/ IsrSend \/ HostRead
       \/ UNCHANGED <<data, wfifo, tx_buf, tx_out, tx_in, heard>>
  <2>1. Calls => \/ \E k \in 0 .. MaxCount, nb \in BOOLEAN :
                      \E bytes \in [1 .. k -> Byte] : WriteCall(bytes, nb)
                 \/ UNCHANGED <<data, wfifo, tx_buf, tx_out, tx_in, heard>>
    BY DEF Calls, ReadCall, CloseCall, Ioctl, ring, device, local, host
  <2>2. Proceed => \/ WriteReturn \/ ReadReturn \/ CloseReturn
                   \/ WriteCopy \/ WritePublish
                   \/ UNCHANGED <<data, wfifo, tx_buf, tx_out, tx_in, heard>>
    BY DEF Proceed, WriteFill, WriteKick, WriteWait, WriteCheck, ReadTake,
           ReadUnload, ReadRelease, ReadListen, ring, device, local, host
  <2>3. Isr => \/ IsrSend
               \/ UNCHANGED <<data, wfifo, tx_buf, tx_out, tx_in, heard>>
    BY DEF Isr, IsrControl, IsrReceive, IsrReceived, IsrSent, ring, device,
           local, host
  <2>4. Timeout \/ Host => \/ HostRead
                           \/ UNCHANGED <<data, wfifo, tx_buf, tx_out, tx_in, heard>>
    BY DEF Timeout, Host, HostSend, HostPause, Detach, HostType, ring, device,
           local, host
  <2> QED
    BY <2>1, <2>2, <2>3, <2>4 DEF Next
<1> QED
  BY <1>4, <1>5, <1>6, <1>7, <1>8, <1>9, <1>10, <1>11

(* The two parts of a concatenation.                                       *)
LEMMA SplitFacts ==
  ASSUME NEW g \in Seq(Byte), NEW rest \in Seq(Byte), Len(g) > 0
  PROVE  /\ SubSeq(g \o rest, 1, Len(g)) = g
         /\ SubSeq(g \o rest, Len(g) + 1, Len(g \o rest)) = rest
         /\ Len(g) \in 1 .. Len(g \o rest)
<1> DEFINE c == g \o rest
           m == Len(g)
           l == Len(rest)
<1>1. /\ c \in Seq(Byte) /\ Len(c) = m + l
      /\ \A k \in 1 .. m + l : c[k] = IF k <= m THEN g[k] ELSE rest[k - m]
      /\ m \in Nat /\ l \in Nat /\ m > 0
  BY ConcatProperties, LenProperties
<1>2. \A k \in 1 .. m + l : c[k] \in Byte
  BY <1>1, ElementOfSeq
<1> HIDE DEF c, m, l
<1>3. SubSeq(c, 1, m) = g
  <2>1. \A k \in 1 .. m : c[k] \in Byte
    BY <1>1, <1>2
  <2>2. /\ SubSeq(c, 1, m) \in Seq(Byte)
        /\ Len(SubSeq(c, 1, m)) = IF 1 <= m THEN m - 1 + 1 ELSE 0
        /\ \A k \in 1 .. m - 1 + 1 : SubSeq(c, 1, m)[k] = c[1 + k - 1]
    BY <1>1, <2>1, SubSeqProperties
  <2>3. /\ Len(SubSeq(c, 1, m)) = m
        /\ \A k \in 1 .. m : SubSeq(c, 1, m)[k] = g[k]
    BY <1>1, <2>2
  <2> QED
    BY <2>2, <2>3, SeqEqual DEF m
<1>4. SubSeq(c, m + 1, m + l) = rest
  <2>1. \A k \in m + 1 .. m + l : c[k] \in Byte
    BY <1>1, <1>2
  <2>2. /\ SubSeq(c, m + 1, m + l) \in Seq(Byte)
        /\ Len(SubSeq(c, m + 1, m + l))
             = IF m + 1 <= m + l THEN m + l - (m + 1) + 1 ELSE 0
        /\ \A k \in 1 .. m + l - (m + 1) + 1 :
             SubSeq(c, m + 1, m + l)[k] = c[m + 1 + k - 1]
    BY <1>1, <2>1, SubSeqProperties
  <2>3. /\ Len(SubSeq(c, m + 1, m + l)) = l
        /\ \A k \in 1 .. l : SubSeq(c, m + 1, m + l)[k] = c[m + k]
    BY <1>1, <2>2
  <2>4. \A k \in 1 .. l : c[m + k] = rest[k]
    BY <1>1
  <2> QED
    BY <2>2, <2>3, <2>4, SeqEqual DEF l
<1>5. m \in 1 .. m + l
  BY <1>1
<1> QED
  BY <1>1, <1>3, <1>4, <1>5 DEF c, m, l

(* What is not yet read: its end moves with the step that copies it.       *)
LEMMA UnreadFacts ==
  ASSUME Inv
  PROVE  /\ Unread \in Slot
         /\ pc # "release" => Unread = rx_out
         /\ pc = "release" => Unread = (rx_out + n) % LEN
         /\ rx_in >= rx_out => rx_in >= Unread
         /\ rx_in < rx_out => Unread > rx_in \/ Unread = 0
<1>1. RingType /\ LocalType /\ RxInv
  BY TypeSplit DEF Inv
<1>2. rx_out \in 0 .. LEN - 1 /\ rx_in \in 0 .. LEN - 1 /\ LEN \in Nat
  BY <1>1, Sizes DEF RingType, Slot
<1>3. CASE pc = "release"
  <2>1. /\ out = rx_out /\ n \in Nat /\ n > 0 /\ rx_out + n <= LEN
        /\ rx_in >= rx_out => rx_out + n <= rx_in
    BY <1>1, <1>3 DEF RxInv, LocalType
  <2>2. /\ (rx_out + n) % LEN \in Slot
        /\ rx_out + n = LEN => (rx_out + n) % LEN = 0
        /\ rx_out + n < LEN => (rx_out + n) % LEN = rx_out + n
    BY <1>1, <2>1, EndSlotFacts DEF RingType
  <2>3. Unread = (rx_out + n) % LEN
    BY <1>3 DEF Unread
  <2> HIDE DEF Unread
  <2> QED
    BY <1>2, <1>3, <2>1, <2>2, <2>3
<1>4. CASE pc # "release"
  BY <1>1, <1>2, <1>4 DEF Unread, RingType
<1> QED
  BY <1>3, <1>4

LEMMA RxRefines ==
  ASSUME Inv, Next
  PROVE  RxPipe!Next \/ UNCHANGED RxPipe!vars
<1>1. RingType /\ DeviceType /\ LocalType /\ RxInv
  BY TypeSplit DEF Inv
<1> DEFINE r == Ring(rx_buf, Unread, rx_in)
<1>2. /\ r \in Seq(Byte) /\ rfifo \in Seq(Byte) /\ typed \in Seq(Byte)
      /\ got \in Seq(Byte) /\ rx_buf \in [Slot -> Byte]
      /\ rx_in \in Slot /\ rx_out \in Slot /\ n \in Nat /\ Unread \in Slot
  <2>1. rx_buf \in [Slot -> Byte] /\ rx_in \in Slot /\ rx_out \in Slot
    BY <1>1 DEF RingType
  <2>2. Unread \in Slot
    BY UnreadFacts
  <2>3. r \in Seq(Byte)
    BY <2>1, <2>2, RingFacts
  <2>4. rfifo \in Seq(Byte) /\ typed \in Seq(Byte) /\ got \in Seq(Byte)
    BY <1>1 DEF DeviceType, LocalType
  <2>5. n \in Nat
    BY <1>1, Sizes DEF LocalType
  <2> QED
    BY <2>1, <2>2, <2>3, <2>4, <2>5
<1> HIDE DEF r
<1>3. RxContents = r \o rfifo
  BY DEF RxContents, r
<1>4. CASE \E b \in Keys : HostType(b)
  <2>1. PICK b \in Keys : HostType(b)
    BY <1>4
  <2>2. typed' = <<b>> /\ UNCHANGED <<rx_buf, rx_out, rx_in, rfifo, got, pc, n>>
    BY <2>1 DEF HostType, ring, device, local
  <2>3. typed' \in Seq(Byte) /\ Unread' = Unread
    BY <2>2, DriverAssumption DEF Unread
  <2>4. RxPipe!Ask
    BY <2>2, <2>3 DEF RxPipe!Ask
  <2> QED
    BY <2>4 DEF RxPipe!Next
<1>5. CASE HostSend
  <2>1. /\ UNCHANGED <<rx_buf, rx_out, rx_in, got, pc, n>>
        /\ rfifo' = rfifo \o typed /\ typed' = <<>> /\ typed # <<>>
    BY <1>5 DEF HostSend, ring, local
  <2>2. Len(typed) = 1
    <3>1. Len(typed) <= 1
      BY <1>1 DEF RxInv
    <3>2. Len(typed) \in Nat /\ Len(typed) # 0
      BY <1>2, <2>1, EmptySeq, LenProperties
    <3> QED
      BY <3>1, <3>2, OnlyOne
  <2>3. Unread' = Unread
    BY <2>1 DEF Unread
  <2>4. RxContents' = (r \o rfifo) \o typed
    <3>1. RxContents' = r \o (rfifo \o typed)
      BY <2>1, <2>3 DEF RxContents, r
    <3> QED
      BY <1>2, <3>1, ConcatAssociative
  <2>5. SubSeq(typed, 1, 1) = typed
    BY <1>2, <2>2, SubSeqFull
  <2>6. SubSeq(typed, 2, 1) = <<>>
    BY SubSeqEmpty
  <2>7. RxPipe!Put(1)
    <3>1. RxContents' = RxContents \o SubSeq(typed, 1, 1)
      BY <1>3, <2>4, <2>5
    <3>2. typed' = SubSeq(typed, 1 + 1, Len(typed))
      BY <2>1, <2>2, <2>6
    <3> QED
      BY <2>1, <3>1, <3>2 DEF RxPipe!Put, RxPipe!Take, RxPipe!Drop, RxContents
  <2>8. 1 \in 1 .. Len(typed)
    BY <2>2
  <2> QED
    BY <2>7, <2>8 DEF RxPipe!Next
<1>6. CASE IsrReceive
  <2>1. /\ UNCHANGED <<typed, got, rx_out, pc, n>> /\ NextSlot(rx_in) # rx_out
        /\ \/ UNCHANGED <<rx_buf, rx_in, rfifo>>
           \/ /\ rfifo # <<>> /\ rfifo' = Tail(rfifo)
              /\ rx_buf' = [rx_buf EXCEPT ![rx_in] = Head(rfifo)]
              /\ rx_in' = (rx_in + 1) % LEN
    BY <1>6 DEF IsrReceive, RxFull, NextSlot, local, host
  <2>2. Unread' = Unread
    BY <2>1 DEF Unread
  <2>3. CASE UNCHANGED <<rx_buf, rx_in, rfifo>>
    BY <2>1, <2>2, <2>3 DEF RxPipe!vars
  <2>4. CASE /\ rfifo # <<>> /\ rfifo' = Tail(rfifo)
             /\ rx_buf' = [rx_buf EXCEPT ![rx_in] = Head(rfifo)]
             /\ rx_in' = (rx_in + 1) % LEN
    <3> DEFINE h == Head(rfifo)
               t == Tail(rfifo)
    <3>1. /\ h \in Byte /\ t \in Seq(Byte) /\ rfifo = <<h>> \o t
      <4>1. h \in Byte /\ t \in Seq(Byte)
        BY <1>2, <2>4, HeadTailProperties
      <4>2. Len(rfifo) \in Nat \ {0}
        BY <1>2, <2>4, EmptySeq
      <4>3. /\ SubSeq(rfifo, 1, Len(rfifo)) = rfifo
            /\ SubSeq(rfifo, 2, Len(rfifo)) = t
        BY <1>2, <2>4, SubSeqFull, TailIsSubSeq
      <4>4. 1 \in 1 .. Len(rfifo) /\ Len(rfifo) \in 1 .. Len(rfifo) /\ 1 + 1 = 2
        BY <4>2
      <4>5. SubSeq(rfifo, 1, Len(rfifo))
              = <<rfifo[1]>> \o SubSeq(rfifo, 1 + 1, Len(rfifo))
        BY <1>2, <4>4, SubSeqRecursiveFirst
      <4>6. rfifo[1] = h
        BY <1>2, <2>4
      <4> QED
        BY <4>1, <4>3, <4>4, <4>5, <4>6
    <3> HIDE DEF h, t
    <3>2. rx_buf' = [rx_buf EXCEPT ![rx_in] = h] /\ rfifo' = t
      BY <2>4 DEF h, t
    <3>3. rx_buf' \in [Slot -> Byte] /\ rx_buf'[rx_in] = h
      BY <1>2, <3>1, <3>2
    <3>4. Ring(rx_buf', Unread, rx_in) = r
      <4>1. ASSUME NEW k \in 1 .. Count(Unread, rx_in)
            PROVE  rx_buf'[SlotAt(Unread, k)] = rx_buf[SlotAt(Unread, k)]
        <5>1. SlotAt(Unread, k) \in Slot
          BY <1>2, RingFacts
        <5>2. SlotAt(Unread, k) # rx_in
          BY <1>2, Sizes DEF SlotAt, Count, Slot
        <5> QED
          BY <1>2, <3>2, <5>1, <5>2
      <4> QED
        BY <1>2, <3>3, <4>1, RingSame DEF r
    <3>5. /\ 1 \in Nat /\ 1 > 0 /\ rx_in + 1 <= LEN
          /\ Unread > rx_in => rx_in + 1 < Unread
          /\ Unread = 0 => rx_in + 1 < LEN
      <4>1. rx_in \in 0 .. LEN - 1 /\ rx_out \in 0 .. LEN - 1 /\ LEN \in Nat
        BY <1>2, Sizes DEF Slot
      <4>2. /\ rx_in = LEN - 1 => rx_out # 0
            /\ rx_in # LEN - 1 => rx_out # rx_in + 1
        BY <1>2, <2>1, NextSlotFacts
      <4>3. CASE pc # "release"
        BY <4>1, <4>2, <4>3, UnreadFacts
      <4>4. CASE pc = "release"
        <5>1. /\ n \in Nat /\ n > 0 /\ rx_out + n <= LEN
              /\ rx_in >= rx_out => rx_out + n <= rx_in
          BY <1>1, <4>4 DEF RxInv, LocalType
        <5>2. /\ rx_out + n = LEN => (rx_out + n) % LEN = 0
              /\ rx_out + n < LEN => (rx_out + n) % LEN = rx_out + n
          BY <1>2, <5>1, EndSlotFacts
        <5>3. Unread = (rx_out + n) % LEN
          BY <4>4, UnreadFacts
        <5> QED
          BY <4>1, <4>2, <5>1, <5>2, <5>3
      <4> QED
        BY <4>3, <4>4
    <3>6. Ring(rx_buf', Unread, rx_in') = r \o <<h>>
      <4>1. Ring(rx_buf', Unread, (rx_in + 1) % LEN)
              = Ring(rx_buf', Unread, rx_in) \o Stretch(rx_buf', rx_in, 1)
        BY <1>2, <3>3, <3>5, RingAppend
      <4>2. Stretch(rx_buf', rx_in, 1) = <<h>>
        <5>1. /\ Stretch(rx_buf', rx_in, 1) \in Seq(Byte)
              /\ Len(Stretch(rx_buf', rx_in, 1)) = 1
              /\ \A k \in 1 .. 1 :
                   Stretch(rx_buf', rx_in, 1)[k] = rx_buf'[rx_in + k - 1]
          BY <1>2, <3>3, <3>5, StretchFacts
        <5>2. rx_in + 1 - 1 = rx_in
          BY <1>2, Sizes DEF Slot
        <5>3. \A k \in 1 .. 1 : Stretch(rx_buf', rx_in, 1)[k] = <<h>>[k]
          BY <3>3, <5>1, <5>2
        <5>4. <<h>> \in Seq(Byte) /\ Len(<<h>>) = 1
          BY <3>1
        <5> QED
          BY <5>1, <5>3, <5>4, SeqEqual
      <4> QED
        BY <2>4, <3>4, <4>1, <4>2
    <3>7. RxContents' = RxContents
      <4>1. RxContents' = (r \o <<h>>) \o t
        BY <2>2, <3>2, <3>6 DEF RxContents
      <4>2. <<h>> \in Seq(Byte)
        BY <3>1
      <4>3. (r \o <<h>>) \o t = r \o (<<h>> \o t)
        BY <1>2, <3>1, <4>2, ConcatAssociative
      <4> QED
        BY <1>3, <3>1, <4>1, <4>3
    <3> QED
      BY <2>1, <3>7 DEF RxPipe!vars, RxContents
  <2> QED
    BY <2>1, <2>3, <2>4
<1>7. CASE ReadUnload
  <2>1. /\ UNCHANGED <<typed, rx_buf, rx_in, rx_out, rfifo, n>>
        /\ pc = "unload" /\ pc' = "release" /\ out = rx_out
        /\ got' = Stretch(rx_buf, rx_out, n)
        /\ n > 0 /\ rx_out + n <= LEN /\ (rx_in >= rx_out => rx_out + n <= rx_in)
    BY <1>1, <1>7 DEF ReadUnload, At, RxInv, LocalType, Stretch, ring, device, host
  <2>2. Unread = rx_out /\ Unread' = (rx_out + n) % LEN
    BY <2>1 DEF Unread
  <2> DEFINE g == Stretch(rx_buf, rx_out, n)
             u == Ring(rx_buf, (rx_out + n) % LEN, rx_in)
  <2>3. r = g \o u
    BY <1>2, <2>1, <2>2, RingDrop DEF r
  <2>4. g \in Seq(Byte) /\ Len(g) = n
    BY <1>2, <2>1, StretchFacts
  <2>5. u \in Seq(Byte)
    <3>1. (rx_out + n) % LEN \in Slot
      BY <1>2, <2>1, EndSlotFacts
    <3> QED
      BY <1>2, <3>1, RingFacts
  <2> HIDE DEF g, u
  <2> DEFINE rest == u \o rfifo
  <2>6. RxContents = g \o rest
    <3>1. (g \o u) \o rfifo = g \o (u \o rfifo)
      <4>1. g \in Seq(Byte) /\ u \in Seq(Byte) /\ rfifo \in Seq(Byte)
        BY <1>2, <2>4, <2>5
      <4> QED
        BY <4>1, ByteConcat
    <3>2. RxContents = (g \o u) \o rfifo
      BY <1>3, <2>3
    <3> QED
      BY <3>1, <3>2
  <2>7. RxContents' = rest
    BY <2>1, <2>2 DEF RxContents, u
  <2>8. rest \in Seq(Byte) /\ Len(rest) \in Nat
    BY <1>2, <2>5, ConcatProperties, LenProperties
  <2> HIDE DEF rest
  <2>9. /\ SubSeq(g \o rest, 1, n) = g
        /\ SubSeq(g \o rest, n + 1, Len(g \o rest)) = rest
        /\ n \in 1 .. Len(g \o rest)
    BY <1>2, <2>1, <2>4, <2>8, SplitFacts
  <2>10. RxPipe!Get(n)
    <3>1. got' = SubSeq(RxContents, 1, n)
      BY <2>1, <2>6, <2>9 DEF g
    <3>2. RxContents' = SubSeq(RxContents, n + 1, Len(RxContents))
      BY <2>6, <2>7, <2>9
    <3> QED
      BY <2>1, <3>1, <3>2 DEF RxPipe!Get, RxPipe!Take, RxPipe!Drop, RxContents
  <2> QED
    BY <2>6, <2>9, <2>10 DEF RxPipe!Next, RxContents
<1>8. CASE ReadRelease
  <2>1. /\ UNCHANGED <<typed, rx_buf, rx_in, rfifo, got>>
        /\ pc = "release" /\ pc' # "release" /\ out = rx_out
        /\ rx_out' = (out + n) % LEN
    BY <1>1, <1>8 DEF ReadRelease, At, RxInv, device, host
  <2>2. Unread' = Unread
    BY <2>1 DEF Unread
  <2> QED
    BY <2>1, <2>2 DEF RxPipe!vars
<1>9. CASE /\ UNCHANGED <<typed, rx_buf, rx_in, rx_out, rfifo, got>>
           /\ (pc # "release" /\ pc' # "release") \/ UNCHANGED <<pc, n>>
  <2>1. Unread' = Unread
    BY <1>9 DEF Unread
  <2> QED
    BY <1>9, <2>1 DEF RxPipe!vars
<1>10. \/ \E b \in Keys : HostType(b)
       \/ HostSend \/ IsrReceive \/ ReadUnload \/ ReadRelease
       \/ /\ UNCHANGED <<typed, rx_buf, rx_in, rx_out, rfifo, got>>
          /\ (pc # "release" /\ pc' # "release") \/ UNCHANGED <<pc, n>>
  <2>1. Calls => /\ UNCHANGED <<typed, rx_buf, rx_in, rx_out, rfifo, got>>
                 /\ (pc # "release" /\ pc' # "release") \/ UNCHANGED <<pc, n>>
    BY DEF Calls, WriteCall, ReadCall, CloseCall, Ioctl, At, ring, device,
           local, host
  <2>2. Proceed => \/ ReadUnload \/ ReadRelease
                   \/ /\ UNCHANGED <<typed, rx_buf, rx_in, rx_out, rfifo, got>>
                      /\ pc # "release" /\ pc' # "release"
    BY DEF Proceed, WriteFill, WriteCopy, WritePublish, WriteKick, WriteWait,
           WriteCheck, WriteReturn, ReadTake, ReadListen, ReadReturn,
           CloseReturn, Return, At, ring, device, local, host
  <2>3. Isr => \/ IsrReceive
               \/ UNCHANGED <<typed, rx_buf, rx_in, rx_out, rfifo, got, pc, n>>
    BY DEF Isr, IsrControl, IsrReceived, IsrSend, IsrSent, ring, device,
           local, host
  <2>4. Timeout \/ Host =>
          \/ HostSend \/ \E b \in Keys : HostType(b)
          \/ UNCHANGED <<typed, rx_buf, rx_in, rx_out, rfifo, got, pc, n>>
    BY DEF Timeout, Host, HostPause, HostRead, Detach, ring, device, local, host
  <2> QED
    BY <2>1, <2>2, <2>3, <2>4 DEF Next
<1> QED
  BY <1>4, <1>5, <1>6, <1>7, <1>8, <1>9, <1>10

-----------------------------------------------------------------------------
(* From write to the host, for any ring, any FIFO and any bytes: every byte *)
(* once, unchanged and in order (TxIsPipe).                                *)
THEOREM DriverTransmits == Spec => TxIsPipe
<1>1. Init => TxPipe!Init
  <2> SUFFICES ASSUME Init PROVE TxPipe!Init
    OBVIOUS
  <2>1. <<>> \in Seq(Byte)
    BY EmptySeq
  <2>2. data = <<>> /\ heard = <<>> /\ wfifo = <<>> /\ tx_in = 0 /\ tx_out = 0
    BY DEF Init
  <2>3. Ring(tx_buf, 0, 0) = <<>>
    <3>1. TypeOK
      BY InitInv DEF Inv
    <3>2. /\ Ring(tx_buf, 0, 0) \in Seq(Byte)
          /\ Len(Ring(tx_buf, 0, 0)) = Count(0, 0)
      BY <2>2, <3>1, Sizes, TypeSplit, RingFacts DEF RingType
    <3>3. Count(0, 0) = 0
      BY DEF Count
    <3> QED
      BY <3>2, <3>3, EmptySeq
  <2>4. wfifo \o Ring(tx_buf, tx_out, tx_in) = <<>>
    BY <2>1, <2>2, <2>3, ConcatEmptySeq
  <2> QED
    BY <2>1, <2>2, <2>4 DEF TxPipe!Init
<1>2. Inv /\ [Next]_vars => [TxPipe!Next]_TxPipe!vars
  <2>1. UNCHANGED vars => UNCHANGED TxPipe!vars
    BY DEF vars, TxPipe!vars, ring, device, local, host
  <2> QED
    BY <2>1, TxRefines
<1> QED
  BY <1>1, <1>2, DriverInvariant, PTL DEF Spec, TxIsPipe, TxPipe!Spec

(* And from the host to read (RxIsPipe).                                   *)
THEOREM DriverReceives == Spec => RxIsPipe
<1>1. Init => RxPipe!Init
  <2> SUFFICES ASSUME Init PROVE RxPipe!Init
    OBVIOUS
  <2>1. <<>> \in Seq(Byte)
    BY EmptySeq
  <2>2. typed = <<>> /\ got = <<>> /\ rfifo = <<>> /\ rx_in = 0 /\ Unread = 0
    BY DEF Init, Unread
  <2>3. Ring(rx_buf, 0, 0) = <<>>
    <3>1. TypeOK
      BY InitInv DEF Inv
    <3>2. /\ Ring(rx_buf, 0, 0) \in Seq(Byte)
          /\ Len(Ring(rx_buf, 0, 0)) = Count(0, 0)
      BY <2>2, <3>1, Sizes, TypeSplit, RingFacts DEF RingType
    <3>3. Count(0, 0) = 0
      BY DEF Count
    <3> QED
      BY <3>2, <3>3, EmptySeq
  <2>4. Ring(rx_buf, Unread, rx_in) \o rfifo = <<>>
    BY <2>1, <2>2, <2>3, ConcatEmptySeq
  <2> QED
    BY <2>1, <2>2, <2>4 DEF RxPipe!Init
<1>2. Inv /\ [Next]_vars => [RxPipe!Next]_RxPipe!vars
  <2>1. UNCHANGED vars => UNCHANGED RxPipe!vars
    BY DEF vars, RxPipe!vars, Unread, ring, device, local, host
  <2> QED
    BY <2>1, RxRefines
<1> QED
  BY <1>1, <1>2, DriverInvariant, PTL DEF Spec, RxIsPipe, RxPipe!Spec
=============================================================================
