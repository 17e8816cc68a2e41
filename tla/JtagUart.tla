------------------------------ MODULE JtagUart ------------------------------
(***************************************************************************)
(* The interrupt-driven driver of the JTAG UART, standard input and output *)
(* of the program: altera_avalon_jtag_uart_{init,read,write,ioctl}.c, with *)
(* the two hardware FIFOs of the device and the host at the other end of   *)
(* the cable.                                                              *)
(*                                                                         *)
(* The calling program (pc) executes one call at a time (the build is      *)
(* single threaded) and may be interrupted between any two of its accesses *)
(* to shared data.  The interrupt routine (isr) runs to its end before the *)
(* program goes on, but the host reads and writes the FIFOs meanwhile.     *)
(***************************************************************************)
EXTENDS Integers, Sequences

CONSTANTS
  Byte,             \* the values of a byte
  LEN,              \* ALTERA_AVALON_JTAG_UART_BUF_LEN, 2048
  FifoDepth,        \* size of either hardware FIFO, 64
  FifoMargin,       \* almost empty / almost full threshold, 8
  INT_MAX,
  DefaultTimeout,   \* ALTERA_AVALON_JTAG_UART_DEFAULT_TIMEOUT, 10
  Ops,              \* the calls the program makes
  Keys,             \* the bytes the host sends
  MaxCount          \* bound: longest call

ASSUME DriverAssumption ==
  /\ LEN \in Nat /\ LEN > 1
  /\ FifoDepth \in Nat \ {0}
  /\ FifoMargin \in Nat /\ FifoMargin < FifoDepth
  /\ INT_MAX \in Nat /\ DefaultTimeout \in 2 .. INT_MAX - 2
  /\ MaxCount \in Nat /\ Keys \subseteq Byte
  /\ Ops \subseteq {"write", "read", "close", "ioctl"}

VARIABLES
  tx_buf, tx_in, tx_out,  \* ring of bytes to the host
  rx_buf, rx_in, rx_out,  \* ring of bytes from the host
  irq_enable,             \* the driver's copy of the enable bits
  ien,                    \* the enable bits in the device
  host_inactive, timeout,
  wfifo, rfifo,           \* hardware FIFOs, to and from the host
  ac, pause_irq,          \* the host was seen; it paused with rfifo in use
  isr,                    \* interrupt routine: place and local variables
  pc,                     \* the program: place in the call
  data, left, nonblock,   \* bytes to write, room to read into, O_NONBLOCK
  in, out, n, moved,      \* local variables; moved is ptr - start
  got,                    \* what the last memcpy of read brought
  attached,               \* the cable is in
  typed, heard            \* host: bytes to send, last byte received

ring   == <<tx_buf, tx_in, tx_out, rx_buf, rx_in, rx_out>>
device == <<ien, wfifo, rfifo, ac, pause_irq>>
local  == <<data, left, nonblock, in, out, n, moved, got>>
host   == <<attached, typed, heard>>
vars   == <<ring, irq_enable, device, host_inactive, timeout, isr, pc, local,
            host>>

Slot == 0 .. LEN - 1

(* The bytes from slot o up to, not including, slot i of a ring. *)
Ring(buf, o, i) ==
  [k \in 1 .. ((i - o) % LEN) |-> buf[(o + k - 1) % LEN]]

(* The control register: interrupts pending and room in wfifo. *)
RI == "RE" \in ien /\ (pause_irq \/ FifoDepth - Len(rfifo) <= FifoMargin)
WI == "WE" \in ien /\ Len(wfifo) <= FifoMargin
Control == [RI |-> RI, WI |-> WI, space |-> FifoDepth - Len(wfifo)]

Idle == [at |-> "idle"]

(* After altera_avalon_jtag_uart_init, with nobody at the other end yet. *)
Init ==
  /\ \E b \in Byte : tx_buf = [k \in Slot |-> b] /\ rx_buf = tx_buf
  /\ tx_in = 0 /\ tx_out = 0 /\ rx_in = 0 /\ rx_out = 0
  /\ irq_enable = {"RE"} /\ ien = {"RE"}
  /\ host_inactive = 0 /\ timeout = DefaultTimeout
  /\ wfifo = <<>> /\ rfifo = <<>> /\ ac = FALSE /\ pause_irq = FALSE
  /\ isr = Idle /\ pc = "idle"
  /\ data = <<>> /\ left = 0 /\ nonblock = FALSE
  /\ in = 0 /\ out = 0 /\ n = 0 /\ moved = 0 /\ got = <<>>
  /\ attached = TRUE /\ typed = <<>> /\ heard = <<>>

----------------------------------------------------------------------------
(* The program.  It runs only while no interrupt routine does. *)

At(place) == pc = place /\ isr = Idle

(* Second forms, marked as mutations, are faults a run must notice. *)

(* host_inactive has reached the timeout. *)
HostGone_Never == FALSE                            \* mutation
HostGone == host_inactive >= timeout

(* alt_irq_disable_all, set the bit, tell the device, alt_irq_enable_all. *)
Enable(bit) == irq_enable' = irq_enable \union {bit} /\ ien' = irq_enable'

(* The longest free stretch from in on, for the values in and out hold. *)
FreeStretch_NoGap(i, o) ==                         \* mutation
  IF i < o THEN o - 1 - i ELSE LEN - i
FreeStretch(i, o) ==
  IF i < o THEN o - 1 - i ELSE IF o > 0 THEN LEN - i ELSE LEN - 1 - i

Shorter(a, b) == IF a < b THEN a ELSE b

(* The local variables of a call end with it. *)
Return == /\ pc' = "idle"
          /\ data' = <<>> /\ left' = 0 /\ nonblock' = FALSE
          /\ in' = 0 /\ out' = 0 /\ n' = 0 /\ moved' = 0

WriteCall(bytes, nb) ==
  /\ At("idle") /\ "write" \in Ops
  /\ data' = bytes /\ nonblock' = nb
  /\ pc' = "fill"
  /\ UNCHANGED <<ring, irq_enable, device, host_inactive, timeout, isr, left,
                 in, out, n, moved, got, host>>

(* Read in and out once, and find how much fits. *)
WriteFill ==
  /\ At("fill")
  /\ IF data = <<>>
     THEN pc' = "kick" /\ UNCHANGED <<in, out, n>>
     ELSE /\ in' = tx_in /\ out' = tx_out
          /\ n' = Shorter(FreeStretch(tx_in, tx_out), Len(data))
          /\ pc' = IF n' = 0 THEN "kick" ELSE "copy"
  /\ UNCHANGED <<ring, irq_enable, device, host_inactive, timeout, isr, data,
                 left, nonblock, moved, got, host>>

WriteCopy ==
  /\ At("copy")
  /\ tx_buf' = [k \in Slot |-> IF k \in in .. in + n - 1 THEN data[k - in + 1]
                                                         ELSE tx_buf[k]]
  /\ pc' = "publish"
  /\ UNCHANGED <<tx_in, tx_out, rx_buf, rx_in, rx_out, irq_enable, device,
                 host_inactive, timeout, isr, local, host>>

WritePublish ==
  /\ At("publish")
  /\ tx_in' = (in + n) % LEN
  /\ moved' = moved + n
  /\ data' = SubSeq(data, n + 1, Len(data))
  /\ pc' = "fill"
  /\ UNCHANGED <<tx_buf, tx_out, rx_buf, rx_in, rx_out, irq_enable, device,
                 host_inactive, timeout, isr, left, nonblock, in, out, n, got,
                 host>>

(* With interrupts off: let the interrupt routine send. *)
WriteKick ==
  /\ At("kick")
  /\ Enable("WE")
  /\ pc' = IF data # <<>> /\ ~nonblock THEN "wait" ELSE "written"
  /\ UNCHANGED <<ring, wfifo, rfifo, ac, pause_irq, host_inactive, timeout,
                 isr, local, host>>

WriteWait ==
  /\ At("wait")
  /\ out # tx_out \/ HostGone
  /\ pc' = "check"
  /\ UNCHANGED <<ring, irq_enable, device, host_inactive, timeout, isr, local,
                 host>>

WriteCheck ==
  /\ At("check")
  /\ pc' = IF host_inactive # 0 THEN "written" ELSE "fill"
  /\ UNCHANGED <<ring, irq_enable, device, host_inactive, timeout, isr, local,
                 host>>

EIO == -5
EWOULDBLOCK == -11

(* What read and write return. *)
Result == IF moved > 0 THEN moved ELSE IF nonblock THEN EWOULDBLOCK ELSE EIO

WriteReturn ==
  /\ At("written")
  /\ Return
  /\ UNCHANGED <<ring, irq_enable, device, host_inactive, timeout, isr, got,
                 host>>

ReadCall(space, nb) ==
  /\ At("idle") /\ "read" \in Ops
  /\ left' = space /\ nonblock' = nb
  /\ pc' = IF space > 0 THEN "take" ELSE "taken"
  /\ UNCHANGED <<ring, irq_enable, device, host_inactive, timeout, isr, data,
                 in, out, n, moved, got, host>>

(* The stretch of the ring that can be copied at once; if there is none,   *)
(* the call ends or waits.                                                 *)
ReadTake ==
  /\ At("take")
  /\ in' = rx_in /\ out' = rx_out
  /\ n' = Shorter(IF rx_in >= rx_out THEN rx_in - rx_out ELSE LEN - rx_out,
                  left)
  /\ pc' = IF n' > 0 THEN "unload"
           ELSE IF moved > 0 \/ nonblock THEN "taken" ELSE "listen"
  /\ UNCHANGED <<ring, irq_enable, device, host_inactive, timeout, isr, data,
                 left, nonblock, moved, got, host>>

ReadUnload ==
  /\ At("unload")
  /\ got' = [k \in 1 .. n |-> rx_buf[out + k - 1]]
  /\ pc' = "release"
  /\ UNCHANGED <<ring, irq_enable, device, host_inactive, timeout, isr, data,
                 left, nonblock, in, out, n, moved, host>>

ReadRelease ==
  /\ At("release")
  /\ rx_out' = (out + n) % LEN
  /\ moved' = moved + n /\ left' = left - n
  /\ pc' = IF left' > 0 THEN "take" ELSE "taken"
  /\ UNCHANGED <<tx_buf, tx_in, tx_out, rx_buf, rx_in, irq_enable, device,
                 host_inactive, timeout, isr, data, nonblock, in, out, n, got,
                 host>>

ReadListen ==
  /\ At("listen")
  /\ in # rx_in \/ HostGone
  /\ pc' = IF in = rx_in THEN "taken" ELSE "take"
  /\ UNCHANGED <<ring, irq_enable, device, host_inactive, timeout, isr, local,
                 host>>

MadeRoom_IfFilled == left = 0                      \* mutation
MadeRoom == moved > 0

(* After a successful read there is room again: receive interrupts on. *)
ReadReturn ==
  /\ At("taken")
  /\ IF MadeRoom THEN Enable("RE") ELSE UNCHANGED <<irq_enable, ien>>
  /\ Return
  /\ UNCHANGED <<ring, wfifo, rfifo, ac, pause_irq, host_inactive, timeout,
                 isr, got, host>>

CloseCall(nb) ==
  /\ At("idle") /\ "close" \in Ops
  /\ pc' = "drain" /\ nonblock' = nb
  /\ UNCHANGED <<ring, irq_enable, device, host_inactive, timeout, isr, data,
                 left, in, out, n, moved, got, host>>

CloseReturn ==
  /\ At("drain")
  /\ nonblock \/ tx_out = tx_in \/ HostGone
  /\ Return
  /\ UNCHANGED <<ring, irq_enable, device, host_inactive, timeout, isr, got,
                 host>>

(* TIOCSTIMEOUT; TIOCGCONNECTED changes nothing. *)
Ioctl(t) ==
  /\ At("idle") /\ "ioctl" \in Ops
  /\ timeout # INT_MAX
  /\ timeout' = IF t >= 2 /\ t < INT_MAX THEN t ELSE INT_MAX - 1
  /\ UNCHANGED <<ring, irq_enable, device, host_inactive, isr, pc, local,
                 host>>

----------------------------------------------------------------------------
(* Interrupt context. *)

(* altera_avalon_jtag_uart_irq: entry, and every turn of its outer loop. *)
IsrControl ==
  /\ isr.at = "control" \/ (isr = Idle /\ (RI \/ WI))
  /\ isr' = IF RI THEN [at |-> "receive", control |-> Control, avail |-> TRUE]
            ELSE IF WI THEN [at |-> "send", space |-> Control.space]
            ELSE Idle
  /\ UNCHANGED <<ring, irq_enable, device, host_inactive, timeout, pc, local,
                 host>>

Disable(bit) == irq_enable' = irq_enable \ {bit} /\ ien' = irq_enable'

NextSlot_NoWrap(k) == k + 1                        \* mutation
NextSlot(k) == (k + 1) % LEN

RxFull_Never == FALSE                              \* mutation
RxFull == NextSlot(rx_in) = rx_out

(* One character from rfifo to the ring. *)
IsrReceive ==
  /\ isr.at = "receive" /\ ~RxFull
  /\ pause_irq' = FALSE
  /\ IF rfifo = <<>>
     THEN /\ isr' = [isr EXCEPT !.at = "received", !.avail = FALSE]
          /\ UNCHANGED <<rx_buf, rx_in, rfifo>>
     ELSE /\ rx_buf' = [rx_buf EXCEPT ![rx_in] = Head(rfifo)]
          /\ rx_in' = NextSlot(rx_in)
          /\ rfifo' = Tail(rfifo)
          /\ isr' = [isr EXCEPT !.avail = rfifo' # <<>>]
  /\ UNCHANGED <<tx_buf, tx_in, tx_out, rx_out, irq_enable, ien, wfifo, ac,
                 host_inactive, timeout, pc, local, host>>

Leftover_Never == FALSE                            \* mutation
Leftover == isr.avail

(* The receive loop has ended; if characters remain, the ring is full. *)
IsrReceived ==
  /\ isr.at = "received" \/ (isr.at = "receive" /\ RxFull)
  /\ IF Leftover THEN Disable("RE") ELSE UNCHANGED <<irq_enable, ien>>
  /\ isr' = IF isr.control.WI
            THEN [at |-> "send", space |-> isr.control.space]
            ELSE [at |-> "control"]
  /\ UNCHANGED <<ring, wfifo, rfifo, ac, pause_irq, host_inactive, timeout, pc,
                 local, host>>

(* One character from the ring to wfifo; the device drops it when full. *)
IsrSend ==
  /\ isr.at = "send" /\ isr.space > 0 /\ tx_out # tx_in
  /\ wfifo' = IF Len(wfifo) < FifoDepth THEN Append(wfifo, tx_buf[tx_out])
                                        ELSE wfifo
  /\ tx_out' = NextSlot(tx_out)
  /\ isr' = [isr EXCEPT !.space = @ - 1]
  /\ UNCHANGED <<tx_buf, tx_in, rx_buf, rx_in, rx_out, irq_enable, ien, rfifo,
                 ac, pause_irq, host_inactive, timeout, pc, local, host>>

NoMoreToSend_Always == TRUE                        \* mutation
NoMoreToSend == isr.space > 0

(* Room left: there is nothing more to send, transmit interrupts off. *)
IsrSent ==
  /\ isr.at = "send" /\ (isr.space = 0 \/ tx_out = tx_in)
  /\ IF NoMoreToSend THEN Disable("WE") ELSE UNCHANGED <<irq_enable, ien>>
  /\ isr' = [at |-> "control"]
  /\ UNCHANGED <<ring, wfifo, rfifo, ac, pause_irq, host_inactive, timeout, pc,
                 local, host>>

ClearActivity == ac' = FALSE /\ ien' = irq_enable

(* altera_avalon_jtag_uart_timeout, the alarm callback of every second. *)
Timeout ==
  /\ isr = Idle
  /\ IF ac
     THEN ClearActivity /\ host_inactive' = 0
     ELSE /\ host_inactive' = IF host_inactive < INT_MAX - 2
                              THEN host_inactive + 1 ELSE host_inactive
          /\ UNCHANGED <<ac, ien>>
  /\ UNCHANGED <<ring, irq_enable, wfifo, rfifo, pause_irq, timeout, isr, pc,
                 local, host>>

----------------------------------------------------------------------------
(* The host. *)

HostType(b) ==
  /\ attached /\ typed = <<>> /\ typed' = <<b>>
  /\ UNCHANGED <<ring, irq_enable, device, host_inactive, timeout, isr, pc,
                 local, attached, heard>>

HostSend ==
  /\ attached /\ typed # <<>> /\ Len(rfifo) < FifoDepth
  /\ rfifo' = rfifo \o typed /\ typed' = <<>> /\ ac' = TRUE
  /\ UNCHANGED <<ring, irq_enable, ien, wfifo, pause_irq, host_inactive,
                 timeout, isr, pc, local, attached, heard>>

(* The host has nothing to send at the moment. *)
HostPause ==
  /\ attached
  /\ ac' = TRUE
  /\ pause_irq' = (pause_irq \/ rfifo # <<>>)
  /\ UNCHANGED <<ring, irq_enable, ien, wfifo, rfifo, host_inactive, timeout,
                 isr, pc, local, host>>

HostRead ==
  /\ attached /\ wfifo # <<>>
  /\ heard' = <<Head(wfifo)>> /\ wfifo' = Tail(wfifo)
  /\ UNCHANGED <<ring, irq_enable, ien, rfifo, ac, pause_irq, host_inactive,
                 timeout, isr, pc, local, attached, typed>>

(* The cable is pulled, or the terminal closed, for good. *)
Detach ==
  /\ attached /\ attached' = FALSE
  /\ UNCHANGED <<ring, irq_enable, device, host_inactive, timeout, isr, pc,
                 local, typed, heard>>

----------------------------------------------------------------------------

Calls == \/ \E nb \in BOOLEAN :
              \/ \E k \in 0 .. MaxCount :
                   \/ \E bytes \in [1 .. k -> Byte] : WriteCall(bytes, nb)
                   \/ ReadCall(k, nb)
              \/ CloseCall(nb)
         \/ \E t \in 0 .. INT_MAX : Ioctl(t)

Proceed == \/ WriteFill \/ WriteCopy \/ WritePublish \/ WriteKick
           \/ WriteWait \/ WriteCheck \/ WriteReturn
           \/ ReadTake \/ ReadUnload \/ ReadRelease \/ ReadListen
           \/ ReadReturn \/ CloseReturn

Isr == IsrControl \/ IsrReceive \/ IsrReceived \/ IsrSend \/ IsrSent

Host == HostSend \/ HostPause \/ HostRead \/ Detach
        \/ \E b \in Keys : HostType(b)

Next == Calls \/ Proceed \/ Isr \/ Timeout \/ Host

Spec == Init /\ [][Next]_vars

(* The processor runs the program and the interrupt routine, the timer     *)
(* ticks, and a host that is there reads and polls.                        *)
Fairness == /\ WF_vars(Proceed) /\ WF_vars(Isr) /\ WF_vars(Timeout)
            /\ WF_vars(HostRead) /\ WF_vars(HostPause)

----------------------------------------------------------------------------
(* Properties. *)

(* Every variable keeps its type; the indices stay inside the rings        *)
(* (altera_avalon_jtag_uart_state).                                        *)
TypeOK ==
  /\ tx_buf \in [Slot -> Byte] /\ rx_buf \in [Slot -> Byte]
  /\ tx_in \in Slot /\ tx_out \in Slot /\ rx_in \in Slot /\ rx_out \in Slot
  /\ irq_enable \subseteq {"RE", "WE"} /\ ien \subseteq {"RE", "WE"}
  /\ host_inactive \in 0 .. INT_MAX - 2 /\ timeout \in 2 .. INT_MAX
  /\ wfifo \in Seq(Byte) /\ Len(wfifo) <= FifoDepth
  /\ rfifo \in Seq(Byte) /\ Len(rfifo) <= FifoDepth
  /\ ac \in BOOLEAN /\ pause_irq \in BOOLEAN
  /\ isr \in {Idle, [at |-> "control"]}
            \union [at : {"receive", "received"}, avail : BOOLEAN,
                    control : [RI : BOOLEAN, WI : BOOLEAN,
                               space : 0 .. FifoDepth]]
            \union [at : {"send"}, space : 0 .. FifoDepth]
  /\ pc \in {"idle", "fill", "copy", "publish", "kick", "wait", "check",
             "written", "take", "unload", "release", "listen", "taken",
             "drain"}
  /\ data \in Seq(Byte) /\ left \in Nat /\ nonblock \in BOOLEAN
  /\ in \in Slot /\ out \in Slot /\ n \in 0 .. LEN - 1 /\ moved \in Nat
  /\ got \in Seq(Byte)
  /\ attached \in BOOLEAN /\ typed \in Seq(Byte) /\ heard \in Seq(Byte)

(* The driver's copy of the enable bits and the device's own agree: the    *)
(* read-modify-write of irq_enable by the calls never undoes one by the    *)
(* interrupt routine, nor does the alarm that clears AC.                   *)
EnablesAgree == irq_enable = ien

(* Bytes accepted by write are never left in the ring with the transmit    *)
(* interrupt off: only the call that put them there may still have to turn *)
(* it on, however it interleaves with the routine that turns it off.       *)
NoByteStranded ==
  tx_in # tx_out => "WE" \in ien \/ pc \in {"fill", "copy", "publish", "kick"}

(* The receive interrupt is off only while the ring holds bytes a read can *)
(* take, or the read that took them has still to turn it on.               *)
NeverDeaf == "RE" \in ien \/ rx_in # rx_out \/ pc \in {"take", "taken"}

(* From write to the host, and from the host to read, the driver is a pipe *)
(* through ring and FIFO: every byte once, unchanged, in order.            *)
TxPipe == INSTANCE BytePipe WITH
  todo <- data, pipe <- wfifo \o Ring(tx_buf, tx_out, tx_in), taken <- heard

Unread == IF pc = "release" THEN (rx_out + n) % LEN ELSE rx_out
RxPipe == INSTANCE BytePipe WITH
  todo <- typed, pipe <- Ring(rx_buf, Unread, rx_in) \o rfifo, taken <- got

TxIsPipe == TxPipe!Spec
RxIsPipe == RxPipe!Spec

(* Every write and every close ends: the host makes room, or its absence   *)
(* is noticed.                                                             *)
WritesEnd ==
  pc \in {"fill", "copy", "publish", "kick", "wait", "check", "drain"}
    ~> pc = "idle"

(* A read that waits gets the bytes the host sent, or notices that the     *)
(* host is gone.                                                           *)
ReadsEnd == pc = "listen" /\ (rfifo # <<>> \/ ~attached) ~> pc # "listen"

(* The interrupt routine returns: it never spins on a condition it has not *)
(* switched off.                                                           *)
IsrEnds == isr # Idle ~> isr = Idle

(* altera_avalon_jtag_uart_write.c:214: -EIO means "Host not connected";   *)
(* so a write for which the host has just made room does not end with it   *)
(* unless the host was inactive for the whole timeout.                     *)
EioMeansGone ==
  [][pc = "check" /\ pc' = "written" /\ moved = 0 /\ out # tx_out
     => host_inactive >= timeout]_vars
=============================================================================
